---- MODULE Spec2Model ----
(***************************************************************************)
(* The asynchronous 3D-generation job orchestrator of                      *)
(* src/src/providers/model3dHelpers.ts (generate3DModelAsync), its status  *)
(* store (updateStatusFile / addLogToStatus), the option validation and    *)
(* variant selection it uses, and the reference image generator.           *)
(*                                                                         *)
(* One job is followed write by write: every synchronous write of the      *)
(* status file is one step, every awaited external call is two steps (the  *)
(* call is issued, its outcome arrives).  The status file is assumed       *)
(* readable and writable (the catch branches of updateStatusFile and       *)
(* addLogToStatus, which only warn, are not taken).                        *)
(*                                                                         *)
(* Paths are sequences of their dot-separated segments: "out.glb" is       *)
(* <<"out", "glb">>, so that the regular expression /\.[^.]+$/ of the      *)
(* source (the last dot and what follows it) is computed, not assumed.     *)
(* An optional field of a record is a sequence of length at most one.      *)
(*                                                                         *)
(* Spec follows one job; FairSpec is Spec with the job's steps eventually  *)
(* taken; HelperSpec calls the exported helpers by themselves              *)
(* (generateReferenceImages, selectModelVariant, validate3DModelOptions,   *)
(* merge3DWithDefaults) with arguments drawn from bounded sets.            *)
(***************************************************************************)
EXTENDS Integers, Sequences, FiniteSets, TLC

VARIABLES
    options,              \* the request handed to generate3DModelAsync
    fresh,                \* TRUE iff no file existed at statusPath at the call
    statusFile,           \* the file at statusPath: NoFile or <<record>>
    pc,                   \* position of the job in generate3DModelAsync
    returned,             \* generate3DModelAsync has returned { statusPath }
    finalInputPaths,      \* local of the background unit (line 460)
    generatedReferences,  \* local of the background unit (line 461)
    sortedViews,          \* local of generateReferenceImages (line 118)
    viewIndex,            \* loop variable i of generateReferenceImages, from 1
    referencePaths,       \* local of generateReferenceImages (line 115)
    actualVariant,        \* local of the background unit (line 507)
    result,               \* local of the background unit (line 512), optional
    errorMessage,         \* the message of the error caught at line 662, optional
    cleanupIndex,         \* position of the cleanup loop (line 679), from 1
    pollAttempt,          \* loop variable attempt of pollMeshyTaskStatus
    pollResponses,        \* history: the answers to the status requests
    disk,                 \* the reference image files that exist on disk
    imageCalls,           \* history: the generateImage calls issued
    imageOutcomes,        \* history: whether each settled call saved its image
    backendCalls,         \* history: the 3D backend operations invoked
    unlinkCalls,          \* history: the unlinkSync attempts of the cleanup
    progressWrites,       \* history: the progress values the job has written
    now,                  \* the clock read by new Date()
    helperCall,           \* a helper called by itself: NoCall or <<arguments>>
    ret,                  \* the value that helper returned, optional
    parked,               \* the other pipeline of the process, optional
    statusShared          \* the two pipelines were given the same status path

vars == <<options, fresh, statusFile, pc, returned, finalInputPaths,
          generatedReferences, sortedViews, viewIndex, referencePaths,
          actualVariant, result, errorMessage, cleanupIndex, pollAttempt, pollResponses, disk,
          imageCalls, imageOutcomes, backendCalls, unlinkCalls, progressWrites,
          now, helperCall, ret, parked, statusShared>>

(***************************************************************************)
(* Bounds of the model.                                                    *)
(***************************************************************************)
MaxInputImages == 3

\* The maxAttempts of pollMeshyTaskStatus the jobs of the model run with (the
\* parameter defaults to 120 in the source).
MaxAttempts == 3

(***************************************************************************)
(* Enumerations and static tables (src/src/utils/model3dUtils.ts).         *)
(***************************************************************************)
Model3DModel == {"trellis", "hunyuan3d", "hunyuan-world", "seed3d", "meshy"}

Model3DVariant == {"single", "multi", "single-turbo", "multi-turbo"}

Model3DFormat == {"glb", "gltf"}

AVAILABLE_VARIANTS ==
    [m \in Model3DModel |->
        CASE m = "trellis"       -> {"single", "multi"}
          [] m = "hunyuan3d"     -> {"single", "multi", "single-turbo", "multi-turbo"}
          [] m = "hunyuan-world" -> {"single"}
          [] m = "seed3d"        -> {"single"}
          [] m = "meshy"         -> {"single", "multi"}]

DEFAULT_VARIANTS == [m \in Model3DModel |-> "single"]

\* An option the caller left out (JavaScript undefined; falsy).
Undefined == "undefined"

\* An absent optional field, and a present one.
Absent == <<>>

Some(v) == <<v>>

\* No file at statusPath.
NoFile == <<>>

\* No helper is called by itself: the state belongs to a job.
NoCall == <<>>

\* String.prototype.includes on the variant strings the job handles.
Includes(variant, sub) ==
    CASE sub = "multi" -> variant \in {"multi", "multi-turbo"}
      [] sub = "turbo" -> variant \in {"single-turbo", "multi-turbo"}
      [] OTHER         -> variant = sub

\* A falsy option: undefined or the empty string.
Falsy(s) == s \in {Undefined, ""}

(***************************************************************************)
(* Paths.                                                                  *)
(***************************************************************************)
RECURSIVE PathString(_)
\* The path as the string the source would print.
PathString(p) ==
    IF Len(p) = 0 THEN ""
    ELSE IF Len(p) = 1 THEN p[1]
    ELSE p[1] \o "." \o PathString(Tail(p))

\* p.replace(/\.[^.]+$/, replacement), where the replacement is given by its
\* own dot-separated segments (<<"">> is the empty string).  The expression
\* matches only when a dot is followed by a non-empty last segment.
ReplaceExtension(p, replacement) ==
    IF Len(p) >= 2 /\ p[Len(p)] # ""
    THEN LET stem == SubSeq(p, 1, Len(p) - 1)
         IN  SubSeq(stem, 1, Len(stem) - 1)
                 \o <<stem[Len(stem)] \o replacement[1]>>
                 \o Tail(replacement)
    ELSE p

\* outputPath.trim().length === 0 on the output paths of the model.
IsBlank(p) == p \in {<<"">>, <<" ">>}

(***************************************************************************)
(* Status store (model3dHelpers.ts, lines 44-95).                          *)
(***************************************************************************)
\* path.basename(statusPath, '.json') of the one status path of the model.
StatusId == "job_status"

\* The record updateStatusFile starts from when no file exists (lines 52-59).
InitialStatus(t) ==
    [id |-> StatusId, status |-> "pending", progress |-> 0,
     message |-> "Initializing...", startTime |-> t, endTime |-> Absent,
     result |-> Absent, error |-> Absent, logs |-> <<>>]

\* The record addLogToStatus starts from when no file exists (lines 80-87).
InitialLogStatus(t) ==
    [id |-> StatusId, status |-> "processing", progress |-> 0,
     message |-> "Starting...", startTime |-> t, endTime |-> Absent,
     result |-> Absent, error |-> Absent, logs |-> <<>>]

\* Mutant: the partial record is laid over a new default record, so the
\* fields it does not name are reset.
ObjectAssignOverDefaults(currentStatus, status) ==
    [f \in DOMAIN currentStatus |->
        IF f \in DOMAIN status THEN status[f]
        ELSE IF f \in {"id", "startTime"} THEN currentStatus[f]
        ELSE IF f = "logs" THEN <<>>
        ELSE IF f = "status" THEN "pending"
        ELSE IF f = "progress" THEN 0
        ELSE IF f = "message" THEN "Initializing..."
        ELSE Absent]

\* Object.assign(currentStatus, status): the fields of the partial record
\* replace those of the current one, every other field is kept.
ObjectAssign(currentStatus, status) ==
    [f \in DOMAIN currentStatus |->
        IF f \in DOMAIN status THEN status[f] ELSE currentStatus[f]]

\* updateStatusFile(statusPath, status) at time t: the new content of the file.
updateStatusFile(file, status, t) ==
    LET currentStatus == IF file # NoFile THEN file[1] ELSE InitialStatus(t)
    IN  <<ObjectAssign(currentStatus, status)>>

\* One entry of logs: `[${new Date().toISOString()}] ${message}`.
LogLine(t, message) == "[" \o ToString(t) \o "] " \o message

\* Mutant: the record is never read back; the log goes to the default record.
addLogToStatusUnread(file, message, t) ==
    <<[InitialLogStatus(t) EXCEPT !.logs = <<LogLine(t, message)>>]>>

\* Mutant: the entry replaces the logs instead of being pushed onto them.
addLogToStatusReplacing(file, message, t) ==
    LET currentStatus == IF file # NoFile THEN file[1] ELSE InitialLogStatus(t)
    IN  <<[currentStatus EXCEPT !.logs = <<LogLine(t, message)>>]>>

\* addLogToStatus(statusPath, message) at time t: the new content of the file.
addLogToStatus(file, message, t) ==
    LET currentStatus == IF file # NoFile THEN file[1] ELSE InitialLogStatus(t)
    IN  <<[currentStatus EXCEPT !.logs = Append(@, LogLine(t, message))]>>

(***************************************************************************)
(* Option resolution (model3dHelpers.ts, lines 218-237 and 696-735).       *)
(***************************************************************************)
\* Mutant: the models with a single variant are not told apart, and get the
\* variant the image count asks for.
selectModelVariantByCount(model, inputImageCount, preferTurbo) ==
    IF model \in {"trellis", "meshy", "hunyuan-world", "seed3d"}
    THEN IF inputImageCount <= 1 THEN "single" ELSE "multi"
    ELSE IF preferTurbo
         THEN IF inputImageCount <= 1 THEN "single-turbo" ELSE "multi-turbo"
         ELSE IF inputImageCount <= 1 THEN "single" ELSE "multi"

\* Mutant: the comparison of the image count is off by one.
selectModelVariantOffByOne(model, inputImageCount, preferTurbo) ==
    IF model \in {"trellis", "meshy"}
    THEN IF inputImageCount < 1 THEN "single" ELSE "multi"
    ELSE IF model \in {"hunyuan-world", "seed3d"}
    THEN "single"
    ELSE IF preferTurbo
         THEN IF inputImageCount < 1 THEN "single-turbo" ELSE "multi-turbo"
         ELSE IF inputImageCount < 1 THEN "single" ELSE "multi"

\* selectModelVariant(model, inputImageCount, preferTurbo)
selectModelVariant(model, inputImageCount, preferTurbo) ==
    IF model \in {"trellis", "meshy"}
    THEN IF inputImageCount <= 1 THEN "single" ELSE "multi"
    ELSE IF model \in {"hunyuan-world", "seed3d"}
    THEN "single"
    ELSE IF preferTurbo
         THEN IF inputImageCount <= 1 THEN "single-turbo" ELSE "multi-turbo"
         ELSE IF inputImageCount <= 1 THEN "single" ELSE "multi"

\* Mutant: a variant that is given is returned without looking it up.
validateAndGetVariantUnchecked(model, variant) ==
    IF Falsy(variant) THEN DEFAULT_VARIANTS[model] ELSE variant

\* validateAndGetVariant(model, variant), lines 240-255.
validateAndGetVariant(model, variant) ==
    IF Falsy(variant) THEN DEFAULT_VARIANTS[model]
    ELSE IF variant \notin AVAILABLE_VARIANTS[model] THEN DEFAULT_VARIANTS[model]
    ELSE variant

\* The value validate3DModelOptions returns normally.
Valid == "valid"

\* Mutant: the check of the meshy variants (lines 727-729) is left out.
CheckOptionFieldsWithoutMeshy(o) ==
    IF IsBlank(o.outputPath)
    THEN "Output path is required and cannot be empty"
    ELSE IF o.model \notin Model3DModel
    THEN "Model must be one of: trellis, hunyuan3d, hunyuan-world, seed3d, meshy"
    ELSE IF ~Falsy(o.variant) /\ o.variant \notin Model3DVariant
    THEN "Variant must be one of: single, multi, single-turbo, multi-turbo"
    ELSE IF ~Falsy(o.format) /\ o.format \notin Model3DFormat
    THEN "Format must be one of: glb, gltf"
    ELSE IF o.model = "trellis" /\ Includes(o.variant, "turbo")
    THEN "Trellis model does not support turbo variants"
    ELSE IF o.model = "hunyuan-world" /\ ~Falsy(o.variant) /\ o.variant # "single"
    THEN "Hunyuan World model only supports single variant"
    ELSE IF o.model = "seed3d" /\ ~Falsy(o.variant) /\ o.variant # "single"
    THEN "Seed3D model only supports single variant"
    ELSE Valid

\* Lines 697-729 of validate3DModelOptions: the checks of the output path,
\* the model, the variant, the format and the model's variants, in the order
\* of the source; Valid, or the message of the first error thrown.
CheckOptionFields(o) ==
    IF IsBlank(o.outputPath)
    THEN "Output path is required and cannot be empty"
    ELSE IF o.model \notin Model3DModel
    THEN "Model must be one of: trellis, hunyuan3d, hunyuan-world, seed3d, meshy"
    ELSE IF ~Falsy(o.variant) /\ o.variant \notin Model3DVariant
    THEN "Variant must be one of: single, multi, single-turbo, multi-turbo"
    ELSE IF ~Falsy(o.format) /\ o.format \notin Model3DFormat
    THEN "Format must be one of: glb, gltf"
    ELSE IF o.model = "trellis" /\ Includes(o.variant, "turbo")
    THEN "Trellis model does not support turbo variants"
    ELSE IF o.model = "hunyuan-world" /\ ~Falsy(o.variant) /\ o.variant # "single"
    THEN "Hunyuan World model only supports single variant"
    ELSE IF o.model = "seed3d" /\ ~Falsy(o.variant) /\ o.variant # "single"
    THEN "Seed3D model only supports single variant"
    ELSE IF o.model = "meshy" /\ Includes(o.variant, "turbo")
    THEN "Meshy model does not support turbo variants"
    ELSE Valid

\* Mutant: the check of lines 731-734 is left out.
validateWithoutInputCheck(o) == CheckOptionFields(o)

\* Mutant: the check of lines 731-734 is made first.
validateInputsFirst(o) ==
    IF Len(o.inputImagePaths) = 0 /\ Falsy(o.prompt)
    THEN "Either input images or a prompt is required for 3D model generation"
    ELSE CheckOptionFields(o)

\* validate3DModelOptions(options): Valid, or the message of the error thrown.
validate3DModelOptions(o) ==
    IF CheckOptionFields(o) # Valid
    THEN CheckOptionFields(o)
    ELSE IF Len(o.inputImagePaths) = 0 /\ Falsy(o.prompt)
    THEN "Either input images or a prompt is required for 3D model generation"
    ELSE Valid

\* getDefault3DOptions(model), lines 738-786, for the models of the switch.
getDefault3DOptions(model) ==
    [format |-> "glb",
     autoGenerateReferences |-> TRUE,
     referenceModel |-> "gemini",
     referenceViews |-> <<"front", "back", "top">>,
     cleanupReferences |-> TRUE,
     model |-> model,
     variant |-> IF model \in {"trellis", "hunyuan3d"} THEN "multi" ELSE "single"]

\* { ...a, ...b }: the fields of both, b's value where both have the field.
\* An option set is a function from the names of the fields it was given.
Spread(a, b) ==
    [f \in DOMAIN a \cup DOMAIN b |-> IF f \in DOMAIN b THEN b[f] ELSE a[f]]

\* Mutant: the spread is written the other way round, so the defaults win.
merge3DWithDefaultsOverriding(o) == Spread(o, getDefault3DOptions(o.model))

\* merge3DWithDefaults(options), lines 789-792.
merge3DWithDefaults(o) == Spread(getDefault3DOptions(o.model), o)

(***************************************************************************)
(* Reference image generator (model3dHelpers.ts, lines 109-215).           *)
(***************************************************************************)
\* The comparator of line 118: negative, positive or zero.
CompareViews(a, b) == IF a = "front" THEN -1 ELSE IF b = "front" THEN 1 ELSE 0

RECURSIVE InsertSorted(_, _)
\* A stable insertion of v, which came before every element of the sorted
\* list: v goes after the elements that compare below it and before the rest.
InsertSorted(v, sorted) ==
    IF sorted = <<>> THEN <<v>>
    ELSE IF CompareViews(sorted[1], v) < 0
    THEN <<sorted[1]>> \o InsertSorted(v, Tail(sorted))
    ELSE <<v>> \o sorted

\* Mutant: the views are taken in the order given.
SortViewsUnsorted(views) == views

RECURSIVE SortViews(_)
\* [...views].sort(comparator): Array.prototype.sort is stable, so elements
\* that compare equal keep their order; insertion from the right is stable.
SortViews(views) ==
    IF views = <<>> THEN <<>>
    ELSE InsertSorted(views[1], SortViews(Tail(views)))

\* outputBasePath.replace(/\.[^.]+$/, `_ref_${view}.png`), line 126.
ReferenceOutputPath(outputBasePath, view) ==
    ReplaceExtension(outputBasePath, <<"_ref_" \o view, "png">>)

\* The prompt of the call for view number i (lines 133 and 169): the first
\* call carries the caller's text, the later ones do not.
ViewPrompt(prompt, view, i) ==
    IF i = 1
    THEN prompt \o ", " \o view \o " view, sharp technical reference image"
    ELSE "Create a " \o view \o " view of the same object"

\* Mutant: a later call is conditioned on the latest saved image only.
ImageCallLatestOnly(prompt, outputBasePath, views, i, paths, model) ==
    [provider |-> model,
     view |-> views[i],
     prompt |-> ViewPrompt(prompt, views[i], i),
     outputPath |-> ReferenceOutputPath(outputBasePath, views[i]),
     inputImagePaths |-> IF i = 1 THEN Absent
                         ELSE IF paths = <<>> THEN Some(<<>>)
                         ELSE Some(<<paths[Len(paths)]>>)]

\* The generateImage call of view number i (lines 158-164 and 194-201).
ImageCall(prompt, outputBasePath, views, i, paths, model) ==
    [provider |-> model,
     view |-> views[i],
     prompt |-> ViewPrompt(prompt, views[i], i),
     outputPath |-> ReferenceOutputPath(outputBasePath, views[i]),
     inputImagePaths |-> IF i = 1 THEN Absent ELSE Some(paths)]


(***************************************************************************)
(* Backend dispatcher (model3dHelpers.ts, lines 519-638) and what the      *)
(* backend adapters of model3dUtils.ts check before their first request.   *)
(***************************************************************************)
\* The operation the switch of line 519 selects, or Unsupported where it throws.
Unsupported == "unsupported"

BackendOperation(model, variant) ==
    CASE model = "trellis" ->
            IF variant = "single" THEN "trellisGenerate3DSingle"
            ELSE "trellisGenerate3DMulti"
      [] model = "hunyuan3d" ->
            CASE variant = "single"       -> "hunyuan3DGenerateSingle"
              [] variant = "multi"        -> "hunyuan3DGenerateMulti"
              [] variant = "single-turbo" -> "hunyuan3DGenerateSingleTurbo"
              [] variant = "multi-turbo"  -> "hunyuan3DGenerateMultiTurbo"
              [] OTHER                    -> Unsupported
      [] model = "hunyuan-world" -> "hunyuanWorldGenerate3D"
      [] model = "seed3d" -> "seed3DGenerate"
      [] model = "meshy" ->
            IF variant = "single" THEN "meshyGenerateSingle"
            ELSE "meshyGenerateMulti"
      [] OTHER -> Unsupported

\* The operations that take imagePaths; the others take imagePath.
MultiImageOperations ==
    {"trellisGenerate3DMulti", "hunyuan3DGenerateMulti",
     "hunyuan3DGenerateMultiTurbo", "meshyGenerateMulti"}

\* The message of the updateStatusFile call that opens a case of the switch
\* (lines 539, 583, 598, 613); trellis has none.
ProcessingMessage(model) ==
    CASE model = "hunyuan3d"     -> "Processing with Hunyuan3D..."
      [] model = "hunyuan-world" -> "Processing with Hunyuan World..."
      [] model = "seed3d"        -> "Processing with ByteDance Seed3D..."
      [] model = "meshy"         -> "Processing with Meshy..."
      [] OTHER                   -> ""

\* The image argument of the call: imagePath: finalInputPaths[0] (absent when
\* the list is empty), imagePaths: finalInputPaths, or its first four (meshy).
BackendImages(operation, paths) ==
    IF operation \notin MultiImageOperations
    THEN IF Len(paths) = 0 THEN <<>> ELSE <<paths[1]>>
    ELSE IF operation = "meshyGenerateMulti"
    THEN SubSeq(paths, 1, IF Len(paths) < 4 THEN Len(paths) ELSE 4)
    ELSE paths

\* The error an adapter raises by itself, before any request, or Valid:
\* a single-image adapter reads imagePath.startsWith (a TypeError when the
\* path is undefined), the Hunyuan3D multi adapters want three images, the
\* Meshy multi adapter one to four.
AdapterPrecondition(operation, images) ==
    IF operation \notin MultiImageOperations
    THEN IF Len(images) = 0
         THEN "Cannot read properties of undefined (reading 'startsWith')"
         ELSE Valid
    ELSE IF operation \in {"hunyuan3DGenerateMulti", "hunyuan3DGenerateMultiTurbo"}
    THEN IF Len(images) < 3
         THEN "Hunyuan3D Multi requires at least 3 images"
         ELSE Valid
    ELSE IF operation = "meshyGenerateMulti"
    THEN IF Len(images) < 1 \/ Len(images) > 4
         THEN "Meshy Multi-Image requires 1-4 images"
         ELSE Valid
    ELSE Valid

\* The variant an adapter reports in its result.
OperationVariant(operation) ==
    CASE operation \in {"trellisGenerate3DMulti", "hunyuan3DGenerateMulti",
                        "meshyGenerateMulti"} -> "multi"
      [] operation = "hunyuan3DGenerateSingleTurbo" -> "single-turbo"
      [] operation = "hunyuan3DGenerateMultiTurbo" -> "multi-turbo"
      [] OTHER -> "single"

\* Mutant: the adapter also reports the images it was given as saved paths.
BackendResultWithImages(call) ==
    [operation |-> call.operation,
     variant |-> OperationVariant(call.operation),
     savedPaths |-> call.images \o <<call.outputPath>>,
     input_images |-> call.images,
     auto_generated_references |-> Absent,
     reference_model_used |-> Absent,
     reference_views_generated |-> Absent]

\* The Model3DGenerationResult of a successful call: the artifact is saved
\* at the output path.
BackendResult(call) ==
    [operation |-> call.operation,
     variant |-> OperationVariant(call.operation),
     savedPaths |-> <<call.outputPath>>,
     input_images |-> call.images,
     auto_generated_references |-> Absent,
     reference_model_used |-> Absent,
     reference_views_generated |-> Absent]

\* The operations that create a task and poll it (pollMeshyTaskStatus).
PollingOperations == {"meshyGenerateSingle", "meshyGenerateMulti"}

\* The answers to a poll: the task's status, or a response with an error.
MeshyResponses == {"SUCCEEDED", "FAILED", "EXPIRED", "IN_PROGRESS", "error"}

\* What pollMeshyTaskStatus does with an answer (lines 738-751): it returns
\* the response, waits for the next attempt, or throws the message given.
PollReturns == "returns"

PollWaits == "waits"

PollStep(response) ==
    CASE response = "error"     -> "Meshy API error: request failed"
      [] response = "SUCCEEDED" -> PollReturns
      [] response \in {"FAILED", "EXPIRED"} ->
             "Meshy task " \o response \o ": Unknown error"
      [] OTHER                  -> PollWaits

\* The outcomes of an awaited backend call: its result, or the message of the
\* error it throws (its own precondition, or a failure of the provider).
BackendOutcomes(call) ==
    LET pre == AdapterPrecondition(call.operation, call.images)
    IN  IF pre # Valid
        THEN {[ok |-> FALSE, error |-> pre]}
        ELSE {[ok |-> TRUE, error |-> ""],
              [ok |-> FALSE, error |-> call.operation \o ": API error"]}


(***************************************************************************)
(* The requests of the model.                                              *)
(***************************************************************************)
RECURSIVE InputImages(_)
\* n caller-supplied image paths: img1.png, img2.png, ...
InputImages(n) ==
    IF n = 0 THEN <<>>
    ELSE Append(InputImages(n - 1), <<"img" \o ToString(n), "png">>)

DefaultReferenceViews == <<"front", "back", "top">>

ReferenceViewLists == {DefaultReferenceViews, <<"top", "front">>}

\* Every combination of option values; the booleans and referenceViews are
\* given as they are after the defaults of lines 438-449.
AllRequests ==
    [prompt : {"", "a red cube"},
     inputImagePaths : {InputImages(n) : n \in 0..MaxInputImages},
     outputPath : {<<"">>, <<"out", "glb">>},
     model : Model3DModel \cup {"dalle"},
     variant : Model3DVariant \cup {Undefined, "quad"},
     format : {Undefined, "obj"},
     autoGenerateReferences : BOOLEAN,
     referenceModel : {"gemini"},
     referenceViews : ReferenceViewLists,
     cleanupReferences : BOOLEAN]

\* The condition of line 481: reference images are generated.
GeneratesReferences(o, paths) ==
    Len(paths) = 0 /\ ~Falsy(o.prompt) /\ o.autoGenerateReferences

\* The requests a job is started with: the options that a job never reads
\* (the reference options of a request that is rejected or brings its own
\* images) are left at their defaults.
Requests ==
    {o \in AllRequests :
        \/ /\ validate3DModelOptions(o) = Valid
           /\ Len(o.inputImagePaths) = 0
        \/ /\ o.autoGenerateReferences
           /\ o.cleanupReferences
           /\ o.referenceViews = DefaultReferenceViews}

\* format = 'glb' of line 444.
FormatOf(o) == IF o.format = Undefined THEN "glb" ELSE o.format

(***************************************************************************)
(* The record an earlier job left at the status path, built from the       *)
(* writes that job made: a trellis job with one input image that           *)
(* completed, and a job without prompt and images that failed.             *)
(***************************************************************************)
EarlierResult ==
    BackendResult([operation |-> "trellisGenerate3DSingle",
                   images |-> InputImages(1),
                   outputPath |-> <<"out", "glb">>, format |-> "glb"])

EarlierCompleted ==
    LET w0 == updateStatusFile(NoFile,
                [status |-> "pending", progress |-> 0,
                 message |-> "Initializing 3D model generation..."], 0)
        w1 == updateStatusFile(w0,
                [status |-> "processing", progress |-> 5,
                 message |-> "Validating options and preparing inputs..."], 1)
        w2 == addLogToStatus(w1,
                "Starting 3D generation with model: trellis, variant: undefined", 2)
        w3 == updateStatusFile(w2,
                [progress |-> 10, message |-> "Checking input images..."], 4)
        w4 == updateStatusFile(w3,
                [progress |-> 30, message |-> "Preparing 3D generation request..."], 5)
        w5 == addLogToStatus(w4, "Using variant: single with 1 input images", 6)
        w6 == updateStatusFile(w5,
                [progress |-> 40, message |-> "Calling trellis single API..."], 7)
        w7 == updateStatusFile(w6,
                [progress |-> 90, message |-> "Finalizing result..."], 10)
        w8 == updateStatusFile(w7,
                [status |-> "completed", progress |-> 100,
                 message |-> "3D model generation completed successfully!",
                 endTime |-> Some(11), result |-> Some(EarlierResult)], 11)
    IN  addLogToStatus(w8, "3D model generation completed successfully", 12)

EarlierFailed ==
    LET e  == "Either input images or a prompt is required for 3D model generation"
        w0 == updateStatusFile(NoFile,
                [status |-> "pending", progress |-> 0,
                 message |-> "Initializing 3D model generation..."], 0)
        w1 == updateStatusFile(w0,
                [status |-> "processing", progress |-> 5,
                 message |-> "Validating options and preparing inputs..."], 1)
        w2 == addLogToStatus(w1,
                "Starting 3D generation with model: trellis, variant: undefined", 2)
        w3 == updateStatusFile(w2,
                [status |-> "failed", progress |-> 0,
                 message |-> "Generation failed: " \o e,
                 endTime |-> Some(4), error |-> Some(e)], 4)
    IN  addLogToStatus(w3, "ERROR: " \o e, 5)

\* The record of a job that is at its input check.
EarlierProcessing ==
    LET w0 == updateStatusFile(NoFile,
                [status |-> "pending", progress |-> 0,
                 message |-> "Initializing 3D model generation..."], 0)
        w1 == updateStatusFile(w0,
                [status |-> "processing", progress |-> 5,
                 message |-> "Validating options and preparing inputs..."], 1)
        w2 == addLogToStatus(w1,
                "Starting 3D generation with model: trellis, variant: undefined", 2)
    IN  updateStatusFile(w2,
                [progress |-> 10, message |-> "Checking input images..."], 4)

(***************************************************************************)
(* Initial state: generate3DModelAsync is about to be called.              *)
(***************************************************************************)
Init ==
    /\ options \in Requests
    /\ statusFile \in {NoFile, EarlierCompleted, EarlierFailed}
    /\ fresh = (statusFile = NoFile)
    /\ now = IF statusFile = NoFile THEN 0 ELSE 20
    /\ pc = "call"
    /\ returned = FALSE
    /\ finalInputPaths = <<>>
    /\ generatedReferences = <<>>
    /\ sortedViews = <<>>
    /\ viewIndex = 1
    /\ referencePaths = <<>>
    /\ actualVariant = Undefined
    /\ result = Absent
    /\ errorMessage = Absent
    /\ cleanupIndex = 1
    /\ pollAttempt = 0
    /\ pollResponses = <<>>
    /\ disk = {}
    /\ imageCalls = <<>>
    /\ imageOutcomes = <<>>
    /\ backendCalls = <<>>
    /\ unlinkCalls = <<>>
    /\ progressWrites = <<>>
    /\ helperCall = NoCall
    /\ ret = Absent
    /\ parked = Absent
    /\ statusShared = FALSE


(***************************************************************************)
(* Steps of generate3DModelAsync (model3dHelpers.ts, lines 434-693).       *)
(***************************************************************************)
\* The locals of the background unit and of generateReferenceImages.
locals == <<finalInputPaths, generatedReferences, sortedViews, viewIndex,
            referencePaths, actualVariant, result, errorMessage, cleanupIndex,
            pollAttempt, pollResponses>>

\* The world outside the status file, and the history of calls.
world == <<disk, imageCalls, imageOutcomes, backendCalls, unlinkCalls>>

\* An updateStatusFile call of the job.
WriteStatus(status) ==
    /\ statusFile' = updateStatusFile(statusFile, status, now)
    /\ progressWrites' =
           IF "progress" \in DOMAIN status
           THEN Append(progressWrites, status.progress)
           ELSE progressWrites

\* An addLogToStatus call of the job.
WriteLog(message) ==
    /\ statusFile' = addLogToStatus(statusFile, message, now)
    /\ UNCHANGED progressWrites

\* Time passes; the request and the state of the path at the call are fixed.
Tick ==
    /\ now' = now + 1
    /\ UNCHANGED <<options, fresh, helperCall, ret, parked, statusShared>>

\* Where the finally block of line 675 starts: with the cleanup, or at the end.
AfterSettled ==
    IF options.cleanupReferences /\ Len(generatedReferences) > 0
    THEN "cleanupStart" ELSE "done"

\* Lines 451-456: the initial record; the background unit starts (line 459).
InitializeStatus ==
    /\ pc = "call"
    /\ WriteStatus([status |-> "pending", progress |-> 0,
                    message |-> "Initializing 3D model generation..."])
    /\ finalInputPaths' = options.inputImagePaths
    /\ pc' = "processing"
    /\ Tick
    /\ UNCHANGED <<returned, generatedReferences, sortedViews, viewIndex,
                   referencePaths, actualVariant, result, errorMessage,
                   cleanupIndex, pollAttempt, pollResponses, world>>

\* Lines 464-468.
MarkProcessing ==
    /\ pc = "processing"
    /\ WriteStatus([status |-> "processing", progress |-> 5,
                    message |-> "Validating options and preparing inputs..."])
    /\ pc' = "logStart"
    /\ Tick
    /\ UNCHANGED <<returned, locals, world>>

\* Line 470.
LogStart ==
    /\ pc = "logStart"
    /\ WriteLog("Starting 3D generation with model: " \o options.model
                    \o ", variant: " \o options.variant)
    /\ pc' = "validate"
    /\ Tick
    /\ UNCHANGED <<returned, locals, world>>

\* Mutant: the result of the validation is not acted upon.
ValidateIgnored ==
    /\ pc = "validate"
    /\ pc' = "checkInputs"
    /\ Tick
    /\ UNCHANGED <<statusFile, progressWrites, returned, locals, world>>

\* Mutant: the options are validated before the background unit is started,
\* so the error of a rejected request is thrown at the caller.
ValidateAtCaller ==
    /\ pc = "validate"
    /\ LET v == validate3DModelOptions(options)
       IN  IF v = Valid
           THEN pc' = "checkInputs" /\ UNCHANGED errorMessage
           ELSE pc' = "rejected" /\ errorMessage' = Some(v)
    /\ Tick
    /\ UNCHANGED <<statusFile, progressWrites, returned, finalInputPaths,
                   generatedReferences, sortedViews, viewIndex, referencePaths,
                   actualVariant, result, cleanupIndex, pollAttempt, pollResponses, world>>

\* Line 473: validate3DModelOptions returns, or throws into the catch block.
Validate ==
    /\ pc = "validate"
    /\ LET v == validate3DModelOptions(options)
       IN  IF v = Valid
           THEN pc' = "checkInputs" /\ UNCHANGED errorMessage
           ELSE pc' = "fail" /\ errorMessage' = Some(v)
    /\ Tick
    /\ UNCHANGED <<statusFile, progressWrites, returned, finalInputPaths,
                   generatedReferences, sortedViews, viewIndex, referencePaths,
                   actualVariant, result, cleanupIndex, pollAttempt, pollResponses, world>>

\* Lines 475-481.
CheckInputs ==
    /\ pc = "checkInputs"
    /\ WriteStatus([progress |-> 10, message |-> "Checking input images..."])
    /\ pc' = IF GeneratesReferences(options, finalInputPaths)
             THEN "logNoInputs" ELSE "prepare"
    /\ Tick
    /\ UNCHANGED <<returned, locals, world>>

\* Line 482.
LogNoInputs ==
    /\ pc = "logNoInputs"
    /\ WriteLog("No input images provided, generating reference images automatically...")
    /\ pc' = "markReferences"
    /\ Tick
    /\ UNCHANGED <<returned, locals, world>>

\* Mutant: the views of the request are asked for whatever the variant.
ViewsRequestedAlways(o) == o.referenceViews

\* The views argument of line 493.
ViewsRequested(o) ==
    IF ~Falsy(o.variant) /\ Includes(o.variant, "multi")
    THEN o.referenceViews ELSE <<"front">>

\* Lines 484-495 and 115-122: the checkpoint, then generateReferenceImages is
\* entered with the output path stripped of its extension.
MarkReferences ==
    /\ pc = "markReferences"
    /\ WriteStatus([progress |-> 20, message |-> "Generating reference images..."])
    /\ sortedViews' = SortViews(ViewsRequested(options))
    /\ viewIndex' = 1
    /\ referencePaths' = <<>>
    /\ pc' = "referenceLoop"
    /\ Tick
    /\ UNCHANGED <<returned, finalInputPaths, generatedReferences, actualVariant,
                   result, errorMessage, cleanupIndex, pollAttempt, pollResponses, world>>

\* outputBasePath of line 489.
OutputBasePath(o) == ReplaceExtension(o.outputPath, <<"">>)

\* The arguments generateReferenceImages runs with: those of line 490 in a
\* job, those of the call when the helper is called by itself.
ReferenceArguments ==
    IF helperCall = NoCall
    THEN [prompt |-> options.prompt,
          outputBasePath |-> OutputBasePath(options),
          model |-> options.referenceModel]
    ELSE [prompt |-> helperCall[1].prompt,
          outputBasePath |-> helperCall[1].outputBasePath,
          model |-> helperCall[1].model]

\* Lines 124-201: generateImage is called for the next view and awaited; the
\* first await of the background unit lets generate3DModelAsync return.
IssueImageCall ==
    /\ pc = "referenceLoop"
    /\ viewIndex <= Len(sortedViews)
    /\ imageCalls' = Append(imageCalls,
           ImageCall(ReferenceArguments.prompt, ReferenceArguments.outputBasePath,
                     sortedViews, viewIndex, referencePaths,
                     ReferenceArguments.model))
    /\ returned' = TRUE
    /\ pc' = "imageAwait"
    /\ Tick
    /\ UNCHANGED <<statusFile, progressWrites, locals, disk, imageOutcomes,
                   backendCalls, unlinkCalls>>

\* Mutant: one try block around the whole loop, so the first call that
\* throws ends the generation with the paths saved so far.
ImageOutcomeStopping ==
    /\ pc = "imageAwait"
    /\ \E saved \in BOOLEAN :
          LET path == imageCalls[Len(imageCalls)].outputPath
          IN  /\ imageOutcomes' = Append(imageOutcomes, saved)
              /\ IF saved
                 THEN /\ referencePaths' = Append(referencePaths, path)
                      /\ disk' = disk \cup {path}
                      /\ viewIndex' = viewIndex + 1
                 ELSE /\ viewIndex' = Len(sortedViews) + 1
                      /\ UNCHANGED <<referencePaths, disk>>
    /\ pc' = "referenceLoop"
    /\ Tick
    /\ UNCHANGED <<statusFile, progressWrites, returned, finalInputPaths,
                   generatedReferences, sortedViews, actualVariant, result,
                   errorMessage, cleanupIndex, pollAttempt, pollResponses,
                   imageCalls, backendCalls, unlinkCalls>>

\* Mutant: a call that throws or saves nothing is tried a second time.
ImageOutcomeRetrying ==
    /\ pc = "imageAwait"
    /\ \E saved \in BOOLEAN :
          LET path == imageCalls[Len(imageCalls)].outputPath
          IN  /\ imageOutcomes' = Append(imageOutcomes, saved)
              /\ IF saved
                 THEN /\ referencePaths' = Append(referencePaths, path)
                      /\ disk' = disk \cup {path}
                      /\ viewIndex' = viewIndex + 1
                 ELSE /\ viewIndex' = IF Len(imageCalls) = viewIndex
                                      THEN viewIndex ELSE viewIndex + 1
                      /\ UNCHANGED <<referencePaths, disk>>
    /\ pc' = "referenceLoop"
    /\ Tick
    /\ UNCHANGED <<statusFile, progressWrites, returned, finalInputPaths,
                   generatedReferences, sortedViews, actualVariant, result,
                   errorMessage, cleanupIndex, pollAttempt, pollResponses,
                   imageCalls, backendCalls, unlinkCalls>>

\* Lines 204-211: the call saved its image (the path is pushed), or it threw
\* or saved nothing (the view is skipped); the loop goes on.
ImageOutcome ==
    /\ pc = "imageAwait"
    /\ \E saved \in BOOLEAN :
          LET path == imageCalls[Len(imageCalls)].outputPath
          IN  /\ imageOutcomes' = Append(imageOutcomes, saved)
              /\ IF saved
                 THEN /\ referencePaths' = Append(referencePaths, path)
                      /\ disk' = disk \cup {path}
                 ELSE UNCHANGED <<referencePaths, disk>>
    /\ viewIndex' = viewIndex + 1
    /\ pc' = "referenceLoop"
    /\ Tick
    /\ UNCHANGED <<statusFile, progressWrites, returned, finalInputPaths,
                   generatedReferences, sortedViews, actualVariant, result,
                   errorMessage, cleanupIndex, pollAttempt, pollResponses,
                   imageCalls, backendCalls, unlinkCalls>>

\* Mutant: the promise of generateReferenceImages is not awaited to its end,
\* the job goes on with the paths saved so far.
ReferencesReturnedEarly ==
    /\ pc = "referenceLoop"
    /\ returned' = TRUE
    /\ pc' = "referencesAwait"
    /\ Tick
    /\ UNCHANGED <<statusFile, progressWrites, locals, world>>

\* Line 214: the loop is over and generateReferenceImages resolves; the
\* background unit awaits that promise (line 490).
ReferencesReturned ==
    /\ pc = "referenceLoop"
    /\ viewIndex > Len(sortedViews)
    /\ returned' = TRUE
    /\ pc' = "referencesAwait"
    /\ Tick
    /\ UNCHANGED <<statusFile, progressWrites, locals, world>>

\* Lines 490-498: the paths become the job's references and its input images.
ReferencesGenerated ==
    /\ pc = "referencesAwait"
    /\ generatedReferences' = referencePaths
    /\ finalInputPaths' = referencePaths
    /\ WriteLog("Generated " \o ToString(Len(referencePaths)) \o " reference images")
    /\ pc' = "prepare"
    /\ Tick
    /\ UNCHANGED <<returned, sortedViews, viewIndex, referencePaths, actualVariant,
                   result, errorMessage, cleanupIndex, pollAttempt, pollResponses, world>>

\* Mutant: the checkpoint is written as 3 instead of 30.
PrepareMistyped ==
    /\ pc = "prepare"
    /\ WriteStatus([progress |-> 3, message |-> "Preparing 3D generation request..."])
    /\ pc' = "logVariant"
    /\ Tick
    /\ UNCHANGED <<returned, locals, world>>

\* Lines 501-504.
Prepare ==
    /\ pc = "prepare"
    /\ WriteStatus([progress |-> 30, message |-> "Preparing 3D generation request..."])
    /\ pc' = "logVariant"
    /\ Tick
    /\ UNCHANGED <<returned, locals, world>>

\* Mutant: a request without a variant gets the default variant of its model.
ResolveVariantByDefault(o, paths) ==
    IF ~Falsy(o.variant) THEN o.variant
    ELSE IF o.model \in Model3DModel THEN DEFAULT_VARIANTS[o.model]
    ELSE "single"

\* Mutant: the variant is always chosen from the image count, also when the
\* request names one.
ResolveVariantIgnoringExplicit(o, paths) ==
    selectModelVariant(o.model, Len(paths), FALSE)

\* Line 507: variant || selectModelVariant(model, finalInputPaths.length).
ResolveVariant(o, paths) ==
    IF ~Falsy(o.variant) THEN o.variant
    ELSE selectModelVariant(o.model, Len(paths), FALSE)

\* Lines 507-509.
LogVariant ==
    /\ pc = "logVariant"
    /\ actualVariant' = ResolveVariant(options, finalInputPaths)
    /\ WriteLog("Using variant: " \o actualVariant' \o " with "
                    \o ToString(Len(finalInputPaths)) \o " input images")
    /\ pc' = "markCalling"
    /\ Tick
    /\ UNCHANGED <<returned, finalInputPaths, generatedReferences, sortedViews,
                   viewIndex, referencePaths, result, errorMessage, cleanupIndex,
                   pollAttempt, pollResponses,
                   world>>

\* Lines 514-519.
MarkCalling ==
    /\ pc = "markCalling"
    /\ WriteStatus([progress |-> 40,
                    message |-> "Calling " \o options.model \o " "
                                    \o actualVariant \o " API..."])
    /\ pc' = IF options.model \in Model3DModel \ {"trellis"}
             THEN "markModel" ELSE "dispatch"
    /\ Tick
    /\ UNCHANGED <<returned, locals, world>>

\* Lines 539, 583, 598, 613: the checkpoint that opens the model's case.
MarkModel ==
    /\ pc = "markModel"
    /\ WriteStatus([progress |-> 50, message |-> ProcessingMessage(options.model)])
    /\ pc' = "dispatch"
    /\ Tick
    /\ UNCHANGED <<returned, locals, world>>

\* The call the switch of line 519 makes.
BackendCall(o, variant, paths) ==
    LET operation == BackendOperation(o.model, variant)
    IN  [operation |-> operation,
         images |-> BackendImages(operation, paths),
         outputPath |-> o.outputPath,
         format |-> FormatOf(o)]

\* The error of encodeImageToBase64 when the file of an image is not there.
MissingFile == "ENOENT: no such file or directory"

\* The images of a call that the adapter cannot read: the reference images
\* of this pipeline that are no longer on disk (the caller's own images are
\* outside the model and are taken to be there).
MissingImages(call) ==
    {i \in DOMAIN call.images :
        /\ \E j \in DOMAIN generatedReferences :
              generatedReferences[j] = call.images[i]
        /\ call.images[i] \notin disk}

\* An adapter encodes its images when it is called, before its first await
\* (model3dUtils.ts, lines 164-166, 229-237 and alike), and after the check
\* of its own precondition: the call is rejected there and then when a file
\* cannot be read.
RejectedAtCall(call) ==
    /\ AdapterPrecondition(call.operation, call.images) = Valid
    /\ MissingImages(call) # {}

\* Mutant: the caller awaits the background unit, so the backend call does
\* not let generate3DModelAsync return.
DispatchAwaitedByCaller ==
    /\ pc = "dispatch"
    /\ backendCalls' = Append(backendCalls,
                              BackendCall(options, actualVariant, finalInputPaths))
    /\ pc' = "backendAwait"
    /\ Tick
    /\ UNCHANGED <<statusFile, progressWrites, returned, locals, disk, imageCalls,
                   imageOutcomes, unlinkCalls>>

\* Lines 519-638: the backend operation is called and awaited, or the switch
\* throws for a model or variant it does not know.  The promise awaited is
\* already rejected when the adapter could not read an image.
Dispatch ==
    /\ pc = "dispatch"
    /\ LET call == BackendCall(options, actualVariant, finalInputPaths)
       IN  IF call.operation = Unsupported
           THEN /\ errorMessage' = Some("Unsupported 3D model or variant")
                /\ pc' = "fail"
                /\ UNCHANGED <<backendCalls, returned>>
           ELSE /\ backendCalls' = Append(backendCalls, call)
                /\ returned' = TRUE
                /\ pc' = IF RejectedAtCall(call)
                         THEN "backendRejected" ELSE "backendAwait"
                /\ UNCHANGED errorMessage
    /\ Tick
    /\ UNCHANGED <<statusFile, progressWrites, finalInputPaths,
                   generatedReferences, sortedViews, viewIndex, referencePaths,
                   actualVariant, result, cleanupIndex, pollAttempt, pollResponses, disk, imageCalls,
                   imageOutcomes, unlinkCalls>>

\* The awaited backend call settles: result is assigned, or the error is
\* thrown into the catch block.
BackendOutcome ==
    /\ pc = "backendAwait"
    /\ LET call == backendCalls[Len(backendCalls)]
       IN  /\ call.operation \notin PollingOperations
           /\ \E outcome \in BackendOutcomes(call) :
                 IF outcome.ok
                 THEN /\ result' = Some(BackendResult(call))
                      /\ pc' = "finalize"
                      /\ UNCHANGED errorMessage
                 ELSE /\ errorMessage' = Some(outcome.error)
                      /\ pc' = "fail"
                      /\ UNCHANGED result
    /\ Tick
    /\ UNCHANGED <<statusFile, progressWrites, returned, finalInputPaths,
                   generatedReferences, sortedViews, viewIndex, referencePaths,
                   actualVariant, cleanupIndex, pollAttempt, pollResponses, world>>

\* model3dUtils.ts, lines 759-821 and 861-932: a Meshy adapter checks its
\* images and posts the task; the task is created and polling starts, or the
\* adapter throws (its precondition, an error response, no task id).
MeshyCreateTask ==
    /\ pc = "backendAwait"
    /\ LET call == backendCalls[Len(backendCalls)]
           pre  == AdapterPrecondition(call.operation, call.images)
       IN  /\ call.operation \in PollingOperations
           /\ IF pre # Valid
              THEN /\ errorMessage' = Some(pre)
                   /\ pc' = "fail"
                   /\ UNCHANGED <<pollAttempt, pollResponses>>
              ELSE \E outcome \in {Valid, "Meshy API error: request failed",
                                    "No task ID returned from Meshy API"} :
                      IF outcome = Valid
                      THEN /\ pollAttempt' = 0
                           /\ pollResponses' = <<>>
                           /\ pc' = "meshyPoll"
                           /\ UNCHANGED errorMessage
                      ELSE /\ errorMessage' = Some(outcome)
                           /\ pc' = "fail"
                           /\ UNCHANGED <<pollAttempt, pollResponses>>
    /\ Tick
    /\ UNCHANGED <<statusFile, progressWrites, returned, finalInputPaths,
                   generatedReferences, sortedViews, viewIndex, referencePaths,
                   actualVariant, result, cleanupIndex, world>>

\* The error of pollMeshyTaskStatus when its attempts are used up (line 754).
PollTimeout == "Meshy task timed out after maximum polling attempts"

\* Mutant: the loop has no ceiling, so a task that never reports a terminal
\* status is polled for ever and the call never settles.
MeshyTimeoutMissing ==
    /\ pc = "meshyPoll"
    /\ pollAttempt >= MaxAttempts
    /\ pc' = "meshyPollUnbounded"
    /\ Tick
    /\ UNCHANGED <<statusFile, progressWrites, returned, locals, world>>

\* pollMeshyTaskStatus, line 754: the attempts are used up and the function
\* throws.
MeshyTimeout ==
    /\ pc = "meshyPoll"
    /\ pollAttempt >= MaxAttempts
    /\ errorMessage' = Some(PollTimeout)
    /\ pc' = "fail"
    /\ Tick
    /\ UNCHANGED <<statusFile, progressWrites, returned, finalInputPaths,
                   generatedReferences, sortedViews, viewIndex, referencePaths,
                   actualVariant, result, cleanupIndex, pollAttempt, pollResponses, world>>

\* Mutant: the loop condition is attempt <= maxAttempts, one request too many.
MeshyPollOneMore ==
    /\ pc = "meshyPoll"
    /\ pollAttempt <= MaxAttempts
    /\ \E response \in MeshyResponses :
          LET step == PollStep(response)
          IN  /\ pollResponses' = Append(pollResponses, response)
              /\ CASE step = PollReturns ->
                     /\ pc' = "meshyDownload"
                     /\ UNCHANGED <<pollAttempt, errorMessage>>
                [] step = PollWaits ->
                     /\ pollAttempt' = pollAttempt + 1
                     /\ pc' = "meshyPoll"
                     /\ UNCHANGED errorMessage
                [] OTHER ->
                     /\ errorMessage' = Some(step)
                     /\ pc' = "fail"
                     /\ UNCHANGED pollAttempt
    /\ Tick
    /\ UNCHANGED <<statusFile, progressWrites, returned, finalInputPaths,
                   generatedReferences, sortedViews, viewIndex, referencePaths,
                   actualVariant, result, cleanupIndex, world>>

\* pollMeshyTaskStatus, lines 731-751: one attempt; the answer ends the
\* polling, throws, or the function waits and goes to the next attempt.
MeshyPoll ==
    /\ pc = "meshyPoll"
    /\ pollAttempt < MaxAttempts
    /\ \E response \in MeshyResponses :
          LET step == PollStep(response)
          IN  /\ pollResponses' = Append(pollResponses, response)
              /\ CASE step = PollReturns ->
                     /\ pc' = "meshyDownload"
                     /\ UNCHANGED <<pollAttempt, errorMessage>>
                [] step = PollWaits ->
                     /\ pollAttempt' = pollAttempt + 1
                     /\ pc' = "meshyPoll"
                     /\ UNCHANGED errorMessage
                [] OTHER ->
                     /\ errorMessage' = Some(step)
                     /\ pc' = "fail"
                     /\ UNCHANGED pollAttempt
    /\ Tick
    /\ UNCHANGED <<statusFile, progressWrites, returned, finalInputPaths,
                   generatedReferences, sortedViews, viewIndex, referencePaths,
                   actualVariant, result, cleanupIndex, world>>

\* model3dUtils.ts, lines 823-857 and 934-968: the model of the finished task
\* is downloaded and the adapter returns its result, or the response has no
\* model URL and the adapter throws.
MeshyDownload ==
    /\ pc = "meshyDownload"
    /\ \E hasModelUrl \in BOOLEAN :
          IF hasModelUrl
          THEN /\ result' = Some(BackendResult(backendCalls[Len(backendCalls)]))
               /\ pc' = "finalize"
               /\ UNCHANGED errorMessage
          ELSE /\ errorMessage' = Some("No model URL in Meshy response")
               /\ pc' = "fail"
               /\ UNCHANGED result
    /\ Tick
    /\ UNCHANGED <<statusFile, progressWrites, returned, finalInputPaths,
                   generatedReferences, sortedViews, viewIndex, referencePaths,
                   actualVariant, cleanupIndex, pollAttempt, pollResponses, world>>

\* Lines 640-643.
Finalize ==
    /\ pc = "finalize"
    /\ WriteStatus([progress |-> 90, message |-> "Finalizing result..."])
    /\ pc' = "complete"
    /\ Tick
    /\ UNCHANGED <<returned, locals, world>>

\* Lines 645-650: the metadata added when references were generated.
WithReferenceMetadata(r, o, references) ==
    IF Len(references) > 0
    THEN [r EXCEPT !.auto_generated_references = Some(references),
                   !.reference_model_used = Some(o.referenceModel),
                   !.reference_views_generated = Some(o.referenceViews)]
    ELSE r

\* Mutant: the completion update does not set endTime.
CompleteWithoutEndTime ==
    /\ pc = "complete"
    /\ result' = Some(WithReferenceMetadata(result[1], options, generatedReferences))
    /\ WriteStatus([status |-> "completed", progress |-> 100,
                    message |-> "3D model generation completed successfully!",
                    result |-> result'])
    /\ pc' = "logCompleted"
    /\ Tick
    /\ UNCHANGED <<returned, finalInputPaths, generatedReferences, sortedViews,
                   viewIndex, referencePaths, actualVariant, errorMessage,
                   cleanupIndex, pollAttempt, pollResponses, world>>

\* Lines 645-658.
Complete ==
    /\ pc = "complete"
    /\ result' = Some(WithReferenceMetadata(result[1], options, generatedReferences))
    /\ WriteStatus([status |-> "completed", progress |-> 100,
                    message |-> "3D model generation completed successfully!",
                    endTime |-> Some(now), result |-> result'])
    /\ pc' = "logCompleted"
    /\ Tick
    /\ UNCHANGED <<returned, finalInputPaths, generatedReferences, sortedViews,
                   viewIndex, referencePaths, actualVariant, errorMessage,
                   cleanupIndex, pollAttempt, pollResponses, world>>

\* Line 660, then the finally block is entered.
LogCompleted ==
    /\ pc = "logCompleted"
    /\ WriteLog("3D model generation completed successfully")
    /\ pc' = AfterSettled
    /\ returned' = (returned \/ pc' = "done")
    /\ Tick
    /\ UNCHANGED <<locals, world>>

\* Mutant: the catch block leaves the progress where it was.
FailKeepingProgress ==
    /\ pc = "fail"
    /\ WriteStatus([status |-> "failed",
                    message |-> "Generation failed: " \o errorMessage[1],
                    endTime |-> Some(now), error |-> errorMessage])
    /\ pc' = "logError"
    /\ Tick
    /\ UNCHANGED <<returned, locals, world>>

\* Lines 662-671: the catch block records the failure.
Fail ==
    /\ pc = "fail"
    /\ WriteStatus([status |-> "failed", progress |-> 0,
                    message |-> "Generation failed: " \o errorMessage[1],
                    endTime |-> Some(now), error |-> errorMessage])
    /\ pc' = "logError"
    /\ Tick
    /\ UNCHANGED <<returned, locals, world>>

\* Line 673, then the finally block is entered.
LogError ==
    /\ pc = "logError"
    /\ WriteLog("ERROR: " \o errorMessage[1])
    /\ pc' = AfterSettled
    /\ returned' = (returned \/ pc' = "done")
    /\ Tick
    /\ UNCHANGED <<locals, world>>

\* Line 678.
CleanupStart ==
    /\ pc = "cleanupStart"
    /\ WriteLog("Cleaning up reference images...")
    /\ cleanupIndex' = 1
    /\ pc' = "cleanupLoop"
    /\ Tick
    /\ UNCHANGED <<returned, finalInputPaths, generatedReferences, sortedViews,
                   viewIndex, referencePaths, actualVariant, result, errorMessage,
                   pollAttempt, pollResponses, world>>

\* Mutant: one try block around the whole loop, so the first deletion that
\* fails ends the cleanup.
CleanupReferenceStopping ==
    /\ pc = "cleanupLoop"
    /\ LET refPath == generatedReferences[cleanupIndex]
       IN  \E deleted \in {d \in BOOLEAN : d => refPath \in disk} :
              /\ unlinkCalls' = Append(unlinkCalls, [path |-> refPath, ok |-> deleted])
              /\ disk' = IF deleted THEN disk \ {refPath} ELSE disk
              /\ WriteLog(IF deleted
                          THEN "Cleaned up: " \o PathString(refPath)
                          ELSE "Failed to cleanup " \o PathString(refPath))
              /\ pc' = IF deleted /\ cleanupIndex < Len(generatedReferences)
                       THEN "cleanupLoop" ELSE "done"
    /\ cleanupIndex' = cleanupIndex + 1
    /\ Tick
    /\ UNCHANGED <<returned, finalInputPaths, generatedReferences, sortedViews,
                   viewIndex, referencePaths, actualVariant, result, errorMessage,
                   pollAttempt, pollResponses, imageCalls, imageOutcomes, backendCalls>>

\* Mutant: a deletion that fails is reported in the message of the record.
CleanupReferenceReporting ==
    /\ pc = "cleanupLoop"
    /\ LET refPath == generatedReferences[cleanupIndex]
       IN  \E deleted \in {d \in BOOLEAN : d => refPath \in disk} :
              /\ unlinkCalls' = Append(unlinkCalls, [path |-> refPath, ok |-> deleted])
              /\ disk' = IF deleted THEN disk \ {refPath} ELSE disk
              /\ IF deleted
                 THEN WriteLog("Cleaned up: " \o PathString(refPath))
                 ELSE WriteStatus([message |-> "Failed to cleanup "
                                                  \o PathString(refPath)])
    /\ cleanupIndex' = cleanupIndex + 1
    /\ pc' = IF cleanupIndex < Len(generatedReferences) THEN "cleanupLoop" ELSE "done"
    /\ Tick
    /\ UNCHANGED <<returned, finalInputPaths, generatedReferences, sortedViews,
                   viewIndex, referencePaths, actualVariant, result, errorMessage,
                   pollAttempt, pollResponses, imageCalls, imageOutcomes, backendCalls>>

\* Lines 679-686: unlinkSync of the next reference path succeeds, or it throws
\* (always when the file is not there) and the error is only logged.
CleanupReference ==
    /\ pc = "cleanupLoop"
    /\ LET refPath == generatedReferences[cleanupIndex]
       IN  \E deleted \in {d \in BOOLEAN : d => refPath \in disk} :
              /\ unlinkCalls' = Append(unlinkCalls, [path |-> refPath, ok |-> deleted])
              /\ disk' = IF deleted THEN disk \ {refPath} ELSE disk
              /\ WriteLog(IF deleted
                          THEN "Cleaned up: " \o PathString(refPath)
                          ELSE "Failed to cleanup " \o PathString(refPath))
    /\ cleanupIndex' = cleanupIndex + 1
    /\ pc' = IF cleanupIndex < Len(generatedReferences) THEN "cleanupLoop" ELSE "done"
    /\ Tick
    /\ UNCHANGED <<returned, finalInputPaths, generatedReferences, sortedViews,
                   viewIndex, referencePaths, actualVariant, result, errorMessage,
                   pollAttempt, pollResponses, imageCalls, imageOutcomes, backendCalls>>

Next ==
    \/ InitializeStatus
    \/ MarkProcessing
    \/ LogStart
    \/ Validate
    \/ CheckInputs
    \/ LogNoInputs
    \/ MarkReferences
    \/ IssueImageCall
    \/ ImageOutcome
    \/ ReferencesReturned
    \/ ReferencesGenerated
    \/ Prepare
    \/ LogVariant
    \/ MarkCalling
    \/ MarkModel
    \/ Dispatch
    \/ BackendOutcome
    \/ MeshyCreateTask
    \/ MeshyPoll
    \/ MeshyTimeout
    \/ MeshyDownload
    \/ Finalize
    \/ Complete
    \/ LogCompleted
    \/ Fail
    \/ LogError
    \/ CleanupStart
    \/ CleanupReference

Spec == Init /\ [][Next]_vars

\* The job's steps are continuations on the event loop of one process: a step
\* that can be taken is eventually taken, and every external call eventually
\* returns or throws.
FairSpec == Spec /\ WF_vars(Next)


(***************************************************************************)
(* The exported helpers called by themselves, as the unit tests call them: *)
(* the arguments are drawn at the start, the helper runs, and its value is *)
(* returned.  generateReferenceImages runs the steps it runs in a job.     *)
(***************************************************************************)
\* The longest list of views a call is made with.
MaxViews == 3

\* The views of the type of lines 104 and 112.
ReferenceViews == {"front", "back", "top", "left", "right"}

\* The lists of at most MaxViews views, no view twice.
ViewLists ==
    UNION {{l \in [1..n -> ReferenceViews] :
               \A i, j \in 1..n : l[i] = l[j] => i = j} : n \in 0..MaxViews}

\* generateReferenceImages(prompt, outputBasePath, views, model)
ReferenceCalls ==
    [fn : {"generateReferenceImages"},
     prompt : {"a red cube"},
     outputBasePath : {<<"out">>, <<"test_object", "png">>},
     views : ViewLists,
     model : {"gemini"}]

\* selectModelVariant(model, inputImageCount, preferTurbo)
SelectCalls ==
    [fn : {"selectModelVariant"},
     model : Model3DModel,
     inputImageCount : 0..MaxInputImages,
     preferTurbo : BOOLEAN]

\* validate3DModelOptions(options), for the requests of the model with the
\* reference options at their defaults, which the validation does not read.
ValidateCalls ==
    [fn : {"validate3DModelOptions"},
     options : {o \in AllRequests :
                   /\ o.autoGenerateReferences
                   /\ o.cleanupReferences
                   /\ o.referenceViews = DefaultReferenceViews}]

\* The option set with one more field.
WithField(o, f, v) == [g \in DOMAIN o \cup {f} |-> IF g = f THEN v ELSE o[g]]

\* The option sets: each of them, and each with field f given a value of vs.
Supplying(sets, f, vs) == sets \cup {WithField(o, f, v) : o \in sets, v \in vs}

\* The option sets merge3DWithDefaults is called with: model and output path,
\* and any of the other fields, with values that differ from the defaults
\* (a variant may be supplied as undefined).
OptionSets ==
    LET s0 == {[model |-> m, outputPath |-> <<"model", "glb">>] : m \in Model3DModel}
        s1 == Supplying(s0, "variant", {"single", "multi-turbo", Undefined})
        s2 == Supplying(s1, "format", {"gltf"})
        s3 == Supplying(s2, "autoGenerateReferences", {FALSE})
        s4 == Supplying(s3, "referenceModel", {"openai"})
        s5 == Supplying(s4, "referenceViews", {<<"front", "left">>})
        s6 == Supplying(s5, "cleanupReferences", {FALSE})
    IN  Supplying(s6, "prompt", {"test model"})

\* merge3DWithDefaults(options)
MergeCalls == [fn : {"merge3DWithDefaults"}, options : OptionSets]

\* validateAndGetVariant(model, variant)
VariantCalls ==
    [fn : {"validateAndGetVariant"},
     model : Model3DModel,
     variant : Model3DVariant \cup {Undefined, "quad"}]

\* The partial records the job passes to updateStatusFile, and partial
\* records of one field.
Partials ==
    {[progress |-> 10, message |-> "Checking input images..."],
     [status |-> "processing", progress |-> 5,
      message |-> "Validating options and preparing inputs..."],
     [status |-> "completed", progress |-> 100,
      message |-> "3D model generation completed successfully!",
      endTime |-> Some(30), result |-> Some(EarlierResult)],
     [status |-> "failed", progress |-> 0,
      message |-> "Generation failed: test",
      endTime |-> Some(30), error |-> Some("test")],
     [progress |-> 50], [message |-> "test"], [status |-> "processing"],
     [logs |-> <<>>]}

\* The contents of the status path at a call: no file, or a record that the
\* writes of a job have left there.
StatusFiles == {NoFile, EarlierProcessing, EarlierCompleted, EarlierFailed}

\* updateStatusFile(statusPath, status)
UpdateCalls ==
    [fn : {"updateStatusFile"}, file : StatusFiles, status : Partials]

\* addLogToStatus(statusPath, message)
LogCalls ==
    [fn : {"addLogToStatus"}, file : StatusFiles,
     message : {"test", "ERROR: test"}]

HelperCalls ==
    ReferenceCalls \cup SelectCalls \cup ValidateCalls \cup MergeCalls
        \cup VariantCalls \cup UpdateCalls \cup LogCalls

\* No job is running: the request is not used, and the status path holds
\* what the call of a status helper finds there.
HelperInit ==
    /\ helperCall \in {Some(c) : c \in HelperCalls}
    /\ ret = Absent
    /\ parked = Absent
    /\ statusShared = FALSE
    /\ options = <<>>
    /\ statusFile = IF helperCall[1].fn \in {"updateStatusFile", "addLogToStatus"}
                    THEN helperCall[1].file ELSE NoFile
    /\ fresh = (statusFile = NoFile)
    /\ now = IF statusFile = NoFile THEN 0 ELSE 20
    /\ pc = "helper"
    /\ returned = FALSE
    /\ finalInputPaths = <<>>
    /\ generatedReferences = <<>>
    /\ sortedViews = <<>>
    /\ viewIndex = 1
    /\ referencePaths = <<>>
    /\ actualVariant = Undefined
    /\ result = Absent
    /\ errorMessage = Absent
    /\ cleanupIndex = 1
    /\ pollAttempt = 0
    /\ pollResponses = <<>>
    /\ disk = {}
    /\ imageCalls = <<>>
    /\ imageOutcomes = <<>>
    /\ backendCalls = <<>>
    /\ unlinkCalls = <<>>
    /\ progressWrites = <<>>

\* Lines 115-122: generateReferenceImages is entered and sorts its views.
SortReferenceViews ==
    /\ pc = "helper"
    /\ helperCall[1].fn = "generateReferenceImages"
    /\ sortedViews' = SortViews(helperCall[1].views)
    /\ viewIndex' = 1
    /\ referencePaths' = <<>>
    /\ pc' = "referenceLoop"
    /\ Tick
    /\ UNCHANGED <<statusFile, progressWrites, returned, finalInputPaths,
                   generatedReferences, actualVariant, result, errorMessage,
                   cleanupIndex, pollAttempt, pollResponses, world>>

\* What a helper that only computes a value leaves alone.
job == <<options, fresh, statusFile, returned, locals, world, progressWrites,
         now, helperCall, parked, statusShared>>

\* Lines 218-237: selectModelVariant is called and returns.
SelectVariant ==
    /\ pc = "helper"
    /\ helperCall[1].fn = "selectModelVariant"
    /\ ret' = Some(selectModelVariant(helperCall[1].model,
                                      helperCall[1].inputImageCount,
                                      helperCall[1].preferTurbo))
    /\ pc' = "helperReturned"
    /\ UNCHANGED job

\* Lines 696-735: validate3DModelOptions is called and returns or throws;
\* the value is Valid or the message of the error.
ValidateOptions ==
    /\ pc = "helper"
    /\ helperCall[1].fn = "validate3DModelOptions"
    /\ ret' = Some(validate3DModelOptions(helperCall[1].options))
    /\ pc' = "helperReturned"
    /\ UNCHANGED job

\* Lines 789-792: merge3DWithDefaults is called and returns.
MergeOptions ==
    /\ pc = "helper"
    /\ helperCall[1].fn = "merge3DWithDefaults"
    /\ ret' = Some(merge3DWithDefaults(helperCall[1].options))
    /\ pc' = "helperReturned"
    /\ UNCHANGED job

\* Lines 240-255: validateAndGetVariant is called and returns.
GetVariant ==
    /\ pc = "helper"
    /\ helperCall[1].fn = "validateAndGetVariant"
    /\ ret' = Some(validateAndGetVariant(helperCall[1].model,
                                         helperCall[1].variant))
    /\ pc' = "helperReturned"
    /\ UNCHANGED job

\* What a status helper leaves alone.
outside == <<options, fresh, returned, locals, world, progressWrites,
             helperCall, ret, parked, statusShared>>

\* Lines 44-69: updateStatusFile is called by itself.
UpdateStatus ==
    /\ pc = "helper"
    /\ helperCall[1].fn = "updateStatusFile"
    /\ statusFile' = updateStatusFile(statusFile, helperCall[1].status, now)
    /\ now' = now + 1
    /\ pc' = "helperReturned"
    /\ UNCHANGED outside

\* Lines 72-95: addLogToStatus is called by itself.
AddLog ==
    /\ pc = "helper"
    /\ helperCall[1].fn = "addLogToStatus"
    /\ statusFile' = addLogToStatus(statusFile, helperCall[1].message, now)
    /\ now' = now + 1
    /\ pc' = "helperReturned"
    /\ UNCHANGED outside

HelperNext ==
    \/ SortReferenceViews
    \/ IssueImageCall
    \/ ImageOutcome
    \/ ReferencesReturned
    \/ SelectVariant
    \/ ValidateOptions
    \/ MergeOptions
    \/ GetVariant
    \/ UpdateStatus
    \/ AddLog

HelperSpec == HelperInit /\ [][HelperNext]_vars

(***************************************************************************)
(* generate3DModel (model3dHelpers.ts, lines 258-431), the synchronous     *)
(* pipeline, run in the same process after a job of generate3DModelAsync   *)
(* with the same request has ended: the state of the job is set aside in   *)
(* parked, and the external calls of the second run have the outcomes the  *)
(* same calls had in the first.  The adapters and generateReferenceImages  *)
(* are the ones the job calls.                                             *)
(***************************************************************************)
\* The state of one pipeline.
Unit ==
    [options |-> options, fresh |-> fresh, statusFile |-> statusFile,
     pc |-> pc, returned |-> returned, finalInputPaths |-> finalInputPaths,
     generatedReferences |-> generatedReferences, sortedViews |-> sortedViews,
     viewIndex |-> viewIndex, referencePaths |-> referencePaths,
     actualVariant |-> actualVariant, result |-> result,
     errorMessage |-> errorMessage, cleanupIndex |-> cleanupIndex,
     pollAttempt |-> pollAttempt, pollResponses |-> pollResponses,
     imageCalls |-> imageCalls, imageOutcomes |-> imageOutcomes,
     backendCalls |-> backendCalls, unlinkCalls |-> unlinkCalls,
     progressWrites |-> progressWrites]

\* The pipeline that was set aside.
Other == parked[1]

\* Two histories agree as far as both go.
Agree(s, t) ==
    \A i \in 1..(IF Len(s) < Len(t) THEN Len(s) ELSE Len(t)) : s[i] = t[i]

\* The external calls of this pipeline had the outcomes that the same calls
\* of the other pipeline had: the image calls, the status requests, and
\* what the adapter returned or threw.
SameOutcomes ==
    /\ Agree(imageOutcomes, Other.imageOutcomes)
    /\ (backendCalls # <<>> /\ Other.backendCalls = backendCalls) =>
          /\ Agree(pollResponses, Other.pollResponses)
          /\ pc \in {"finalize", "fail"} =>
                /\ pollResponses = Other.pollResponses
                /\ pc = "finalize" => Other.result # Absent
                /\ pc = "fail" => Other.errorMessage = errorMessage

\* The request is validated and run as a job on a new status path.
PairInit == Init /\ statusFile = NoFile /\ validate3DModelOptions(options) = Valid

\* Lines 258-275: generate3DModel is called with the request of the job that
\* has ended, in the world the job started in.
StartSync ==
    /\ pc = "done"
    /\ parked = Absent
    /\ parked' = Some(Unit)
    /\ finalInputPaths' = options.inputImagePaths
    /\ generatedReferences' = <<>>
    /\ sortedViews' = <<>>
    /\ viewIndex' = 1
    /\ referencePaths' = <<>>
    /\ actualVariant' = Undefined
    /\ result' = Absent
    /\ errorMessage' = Absent
    /\ cleanupIndex' = 1
    /\ pollAttempt' = 0
    /\ pollResponses' = <<>>
    /\ disk' = {}
    /\ imageCalls' = <<>>
    /\ imageOutcomes' = <<>>
    /\ backendCalls' = <<>>
    /\ unlinkCalls' = <<>>
    /\ returned' = FALSE
    /\ pc' = "syncCheckInputs"
    /\ UNCHANGED <<options, fresh, statusFile, progressWrites, now, helperCall,
                   ret, statusShared>>

\* Lines 280-288: generateReferenceImages is entered when no image was given.
SyncCheckInputs ==
    /\ pc = "syncCheckInputs"
    /\ IF GeneratesReferences(options, finalInputPaths)
       THEN /\ sortedViews' = SortViews(ViewsRequested(options))
            /\ viewIndex' = 1
            /\ referencePaths' = <<>>
            /\ pc' = "referenceLoop"
       ELSE /\ pc' = "syncResolve"
            /\ UNCHANGED <<sortedViews, viewIndex, referencePaths>>
    /\ Tick
    /\ UNCHANGED <<statusFile, progressWrites, returned, finalInputPaths,
                   generatedReferences, actualVariant, result, errorMessage,
                   cleanupIndex, pollAttempt, pollResponses, world>>

\* Lines 283-294: the paths become the references and the input images;
\* with no path the pipeline throws.
SyncReferencesGenerated ==
    /\ pc = "referencesAwait"
    /\ generatedReferences' = referencePaths
    /\ finalInputPaths' = referencePaths
    /\ IF Len(referencePaths) = 0
       THEN /\ errorMessage' = Some("Failed to generate reference images automatically")
            /\ pc' = "syncFinally"
       ELSE /\ pc' = "syncResolve"
            /\ UNCHANGED errorMessage
    /\ Tick
    /\ UNCHANGED <<statusFile, progressWrites, returned, sortedViews, viewIndex,
                   referencePaths, actualVariant, result, cleanupIndex,
                   pollAttempt, pollResponses, world>>

\* Lines 297-303: without an input image the pipeline throws; otherwise the
\* variant is resolved.
SyncResolveVariant ==
    /\ pc = "syncResolve"
    /\ IF Len(finalInputPaths) = 0
       THEN /\ errorMessage' =
                   Some("At least one input image is required for 3D model generation")
            /\ pc' = "syncFinally"
            /\ UNCHANGED actualVariant
       ELSE /\ actualVariant' = ResolveVariant(options, finalInputPaths)
            /\ pc' = "syncDispatch"
            /\ UNCHANGED errorMessage
    /\ Tick
    /\ UNCHANGED <<statusFile, progressWrites, returned, finalInputPaths,
                   generatedReferences, sortedViews, viewIndex, referencePaths,
                   result, cleanupIndex, pollAttempt, pollResponses, world>>

\* Lines 308-402: the backend operation is called and awaited, or the switch
\* throws for a model or variant it does not know.
SyncDispatch ==
    /\ pc = "syncDispatch"
    /\ LET call == BackendCall(options, actualVariant, finalInputPaths)
       IN  IF call.operation = Unsupported
           THEN /\ errorMessage' = Some("Unsupported 3D model or variant")
                /\ pc' = "syncFinally"
                /\ UNCHANGED backendCalls
           ELSE /\ backendCalls' = Append(backendCalls, call)
                /\ pc' = "backendAwait"
                /\ UNCHANGED errorMessage
    /\ Tick
    /\ UNCHANGED <<statusFile, progressWrites, returned, finalInputPaths,
                   generatedReferences, sortedViews, viewIndex, referencePaths,
                   actualVariant, result, cleanupIndex, pollAttempt,
                   pollResponses, disk, imageCalls, imageOutcomes, unlinkCalls>>

\* Lines 404-411: the adapter has returned; the metadata is added and the
\* result is returned through the finally block.
SyncReturn ==
    /\ pc = "finalize"
    /\ result' = Some(WithReferenceMetadata(result[1], options, generatedReferences))
    /\ pc' = "syncFinally"
    /\ Tick
    /\ UNCHANGED <<statusFile, progressWrites, returned, finalInputPaths,
                   generatedReferences, sortedViews, viewIndex, referencePaths,
                   actualVariant, errorMessage, cleanupIndex, pollAttempt,
                   pollResponses, world>>

\* The adapter has thrown: the error leaves the try block (no catch).
SyncThrow ==
    /\ pc = "fail"
    /\ pc' = "syncFinally"
    /\ Tick
    /\ UNCHANGED <<statusFile, progressWrites, returned, locals, world>>

\* The condition of the cleanup loop of lines 415-416.
SyncCleansUp ==
    /\ options.cleanupReferences
    /\ Len(generatedReferences) > 0
    /\ cleanupIndex <= Len(generatedReferences)

\* Lines 416-423: unlinkSync of the next reference path succeeds, or it
\* throws and the error is only printed.
SyncCleanupReference ==
    /\ pc = "syncFinally"
    /\ SyncCleansUp
    /\ LET refPath == generatedReferences[cleanupIndex]
       IN  \E deleted \in {d \in BOOLEAN : d => refPath \in disk} :
              /\ unlinkCalls' = Append(unlinkCalls, [path |-> refPath, ok |-> deleted])
              /\ disk' = IF deleted THEN disk \ {refPath} ELSE disk
    /\ cleanupIndex' = cleanupIndex + 1
    /\ Tick
    /\ UNCHANGED <<statusFile, progressWrites, pc, returned, finalInputPaths,
                   generatedReferences, sortedViews, viewIndex, referencePaths,
                   actualVariant, result, errorMessage, pollAttempt,
                   pollResponses, imageCalls, imageOutcomes, backendCalls>>

\* Line 430: the finally block is over; generate3DModel resolves or rejects.
SyncSettle ==
    /\ pc = "syncFinally"
    /\ ~SyncCleansUp
    /\ pc' = "syncDone"
    /\ Tick
    /\ UNCHANGED <<statusFile, progressWrites, returned, locals, world>>

SyncNext ==
    \/ SyncCheckInputs
    \/ IssueImageCall
    \/ ImageOutcome
    \/ ReferencesReturned
    \/ SyncReferencesGenerated
    \/ SyncResolveVariant
    \/ SyncDispatch
    \/ BackendOutcome
    \/ MeshyCreateTask
    \/ MeshyPoll
    \/ MeshyTimeout
    \/ MeshyDownload
    \/ SyncReturn
    \/ SyncThrow
    \/ SyncCleanupReference
    \/ SyncSettle

PairNext ==
    \/ parked = Absent /\ Next
    \/ StartSync
    \/ parked # Absent /\ SyncNext /\ SameOutcomes'

PairSpec == PairInit /\ [][PairNext]_vars

(***************************************************************************)
(* Two jobs of generate3DModelAsync in one process.  The background units  *)
(* are continuations on one event loop: a unit runs from one await to the  *)
(* next without interruption, and while it waits (for generateImage, line  *)
(* 158 or 194, awaited through line 490, for an adapter, lines 522-627,    *)
(* for a poll or a download inside a Meshy adapter) the                    *)
(* other unit may run.  The unit that runs is in the variables of the job, *)
(* the unit that waits is in parked.  The disk and the clock are shared;   *)
(* the status path is shared when statusShared holds, and otherwise each   *)
(* unit has the file of its own path.                                      *)
(***************************************************************************)
\* The requests of the first job: every one leaves its references at the
\* output path 'out.glb' stripped of its extension.  A Meshy job, and a job
\* with an image of the caller, ask for no variant.
ConcurrentRequests ==
    {o \in [prompt : {"a red cube"},
            inputImagePaths : {InputImages(n) : n \in 0..1},
            outputPath : {<<"out", "glb">>},
            model : {"trellis", "meshy"},
            variant : {Undefined, "multi"},
            format : {Undefined},
            autoGenerateReferences : {TRUE},
            referenceModel : {"gemini"},
            referenceViews : {DefaultReferenceViews},
            cleanupReferences : BOOLEAN] :
        (Len(o.inputImagePaths) > 0 \/ o.model = "meshy") =>
            o.cleanupReferences /\ o.variant = Undefined}

\* The request of the second job: its references are generated, and
\* deleted when it ends.
SecondRequests ==
    {o \in ConcurrentRequests :
        /\ o.model = "trellis"
        /\ o.variant = Undefined
        /\ Len(o.inputImagePaths) = 0
        /\ o.cleanupReferences}

\* A unit whose generate3DModelAsync is about to be called; file is what
\* the unit keeps of the status file while it waits.
UnitAtCall(o, file) ==
    [options |-> o, fresh |-> TRUE, statusFile |-> file,
     pc |-> "call", returned |-> FALSE, finalInputPaths |-> <<>>,
     generatedReferences |-> <<>>, sortedViews |-> <<>>,
     viewIndex |-> 1, referencePaths |-> <<>>,
     actualVariant |-> Undefined, result |-> Absent,
     errorMessage |-> Absent, cleanupIndex |-> 1,
     pollAttempt |-> 0, pollResponses |-> <<>>,
     imageCalls |-> <<>>, imageOutcomes |-> <<>>,
     backendCalls |-> <<>>, unlinkCalls |-> <<>>,
     progressWrites |-> <<>>]

\* Where a unit waits for something outside the process: before its call,
\* at the await of a request, of a timer or of a download, and after its end.
\* The await of a promise that is settled already (line 490 once the last
\* image call has returned, an adapter call rejected when it was made)
\* resumes in the same turn of the event loop, before the response, timer or
\* tool call that would let the other unit run.
SuspensionPoints ==
    {"call", "imageAwait", "backendAwait", "meshyPoll", "meshyDownload",
     "done"}

\* Two jobs are about to be started, on two new status paths or on one.
ConcurrentInit ==
    /\ options \in ConcurrentRequests
    /\ statusShared \in BOOLEAN
    /\ parked \in {Some(UnitAtCall(o, NoFile)) : o \in SecondRequests}
    /\ statusFile = NoFile
    /\ fresh = TRUE
    /\ now = 0
    /\ pc = "call"
    /\ returned = FALSE
    /\ finalInputPaths = <<>>
    /\ generatedReferences = <<>>
    /\ sortedViews = <<>>
    /\ viewIndex = 1
    /\ referencePaths = <<>>
    /\ actualVariant = Undefined
    /\ result = Absent
    /\ errorMessage = Absent
    /\ cleanupIndex = 1
    /\ pollAttempt = 0
    /\ pollResponses = <<>>
    /\ disk = {}
    /\ imageCalls = <<>>
    /\ imageOutcomes = <<>>
    /\ backendCalls = <<>>
    /\ unlinkCalls = <<>>
    /\ progressWrites = <<>>
    /\ helperCall = NoCall
    /\ ret = Absent

\* Mutant: a unit that resumes finds the status file as it was when the
\* unit was suspended, as if it held the record in memory across its awaits.
SwitchKeepingRecord ==
    /\ parked # Absent
    /\ pc \in SuspensionPoints
    /\ Other.pc \in SuspensionPoints
    /\ parked' = Some(Unit)
    /\ options' = Other.options
    /\ fresh' = Other.fresh
    /\ statusFile' = IF Other.statusFile = NoFile /\ statusShared
                     THEN statusFile ELSE Other.statusFile
    /\ pc' = Other.pc
    /\ returned' = Other.returned
    /\ finalInputPaths' = Other.finalInputPaths
    /\ generatedReferences' = Other.generatedReferences
    /\ sortedViews' = Other.sortedViews
    /\ viewIndex' = Other.viewIndex
    /\ referencePaths' = Other.referencePaths
    /\ actualVariant' = Other.actualVariant
    /\ result' = Other.result
    /\ errorMessage' = Other.errorMessage
    /\ cleanupIndex' = Other.cleanupIndex
    /\ pollAttempt' = Other.pollAttempt
    /\ pollResponses' = Other.pollResponses
    /\ imageCalls' = Other.imageCalls
    /\ imageOutcomes' = Other.imageOutcomes
    /\ backendCalls' = Other.backendCalls
    /\ unlinkCalls' = Other.unlinkCalls
    /\ progressWrites' = Other.progressWrites
    /\ UNCHANGED <<disk, now, helperCall, ret, statusShared>>

\* The unit that runs reaches an await (or has ended, or is not started) and
\* the event loop runs the other unit.  Every read of the status file is
\* from the path (readFileSync, lines 49 and 77): on a shared path the unit
\* that resumes finds the file as the other unit left it.
Switch ==
    /\ parked # Absent
    /\ pc \in SuspensionPoints
    /\ Other.pc \in SuspensionPoints
    /\ parked' = Some([Unit EXCEPT !.statusFile =
                           IF statusShared THEN NoFile ELSE statusFile])
    /\ options' = Other.options
    /\ fresh' = Other.fresh
    /\ statusFile' = IF statusShared THEN statusFile ELSE Other.statusFile
    /\ pc' = Other.pc
    /\ returned' = Other.returned
    /\ finalInputPaths' = Other.finalInputPaths
    /\ generatedReferences' = Other.generatedReferences
    /\ sortedViews' = Other.sortedViews
    /\ viewIndex' = Other.viewIndex
    /\ referencePaths' = Other.referencePaths
    /\ actualVariant' = Other.actualVariant
    /\ result' = Other.result
    /\ errorMessage' = Other.errorMessage
    /\ cleanupIndex' = Other.cleanupIndex
    /\ pollAttempt' = Other.pollAttempt
    /\ pollResponses' = Other.pollResponses
    /\ imageCalls' = Other.imageCalls
    /\ imageOutcomes' = Other.imageOutcomes
    /\ backendCalls' = Other.backendCalls
    /\ unlinkCalls' = Other.unlinkCalls
    /\ progressWrites' = Other.progressWrites
    /\ UNCHANGED <<disk, now, helperCall, ret, statusShared>>

\* The await of a call that was rejected when it was made throws into the
\* catch block (line 640).
AwaitRejected ==
    /\ pc = "backendRejected"
    /\ errorMessage' = Some(MissingFile)
    /\ pc' = "fail"
    /\ Tick
    /\ UNCHANGED <<statusFile, progressWrites, returned, finalInputPaths,
                   generatedReferences, sortedViews, viewIndex, referencePaths,
                   actualVariant, result, cleanupIndex, pollAttempt,
                   pollResponses, world>>

ConcurrentNext ==
    \/ Next
    \/ AwaitRejected
    \/ Switch

ConcurrentSpec == ConcurrentInit /\ [][ConcurrentNext]_vars

(***************************************************************************)
(* Properties of the status record over the life of a job.                 *)
(***************************************************************************)
\* The record in the status file, once the file exists.
Record == statusFile[1]

Exists == statusFile # NoFile

\* The validation result of the job's request.
Validation == validate3DModelOptions(options)

\* The job has left the try and catch blocks: its outcome is recorded.
Settled == pc \in {"cleanupStart", "cleanupLoop", "done"}

IsPrefix(s, t) == Len(s) <= Len(t) /\ SubSeq(t, 1, Len(s)) = s

\* C1 (as claimed): on a fresh status path the progress of the record never
\* decreases from one record state to the next, on any path.
C1_ProgressNeverDecreases ==
    [][(fresh /\ Exists) => Record'.progress >= Record.progress]_vars

\* C1 (amended): on a fresh status path the progress of the record never
\* decreases from one record state to the next, except at the write of the
\* catch block, which takes a processing record to failed and its progress
\* back to 0.
C1_ProgressDecreasesOnlyOnFailure ==
    [][(fresh /\ Exists) =>
          \/ Record'.progress >= Record.progress
          \/ /\ Record.status = "processing"
             /\ Record'.status = "failed"
             /\ Record'.progress = 0]_vars

\* A job that failed at the backend stage, after the 50% checkpoint.
C1_Witness ==
    /\ fresh /\ Exists /\ pc = "done"
    /\ Record.status = "failed" /\ Record.progress = 0
    /\ progressWrites = <<0, 5, 10, 30, 40, 50, 0>>

\* C2: from the job's first write on, status only moves from pending to
\* processing and from processing to completed or failed; completed and
\* failed are never left, by the log appends and the cleanup either.
C2_StatusTransitions ==
    [][IF pc = "call"
       THEN Record'.status = "pending"
       ELSE \/ Record'.status = Record.status
            \/ Record.status = "pending" /\ Record'.status = "processing"
            \/ /\ Record.status = "processing"
               /\ Record'.status \in {"completed", "failed"}]_vars

\* A completed job whose cleanup has run, one deletion failing.
C2_Witness ==
    /\ pc = "done" /\ Record.status = "completed"
    /\ \E i \in DOMAIN unlinkCalls : ~unlinkCalls[i].ok

NoPromptNoImages(o) == Falsy(o.prompt) /\ Len(o.inputImagePaths) = 0

\* C4 (as claimed): the record of a job whose request has neither prompt nor
\* image is never processing, and the job makes no external call.
C4_NeverProcessing ==
    (NoPromptNoImages(options) /\ Exists) =>
        /\ Record.status # "processing"
        /\ imageCalls = <<>> /\ backendCalls = <<>>

\* C4 (amended): validation rejects a request that has neither prompt nor
\* image; the record of its job is processing only at the 5% checkpoint
\* written before validation, no later checkpoint is written, the job ends
\* failed, and it makes no reference-generation or backend call.
C4_FailsAfterProcessingCheckpoint ==
    NoPromptNoImages(options) =>
        /\ Validation # Valid
        /\ imageCalls = <<>> /\ backendCalls = <<>>
        /\ \A i \in DOMAIN progressWrites : progressWrites[i] <= 5
        /\ (pc # "call" /\ Record.status = "processing") => Record.progress = 5
        /\ Settled => Record.status = "failed"

\* A job without prompt and images, with otherwise valid options, has ended.
C4_Witness ==
    /\ NoPromptNoImages(options) /\ pc = "done"
    /\ Validation = "Either input images or a prompt is required for 3D model generation"
    /\ Record.status = "failed"

\* C5: when validation rejects the request, the job ends failed with the
\* validation message as its error, the reference image generator and the 3D
\* backends are not invoked, and no checkpoint above 5 is written.
C5_ValidationFailure ==
    Validation # Valid =>
        /\ imageCalls = <<>> /\ backendCalls = <<>>
        /\ \A i \in DOMAIN progressWrites : progressWrites[i] <= 5
        /\ pc \notin {"checkInputs", "prepare", "dispatch", "finalize", "complete"}
        /\ Settled => /\ Record.status = "failed"
                      /\ Record.error = Some(Validation)

\* A job whose model is not recognised has ended.
C5_Witness ==
    /\ options.model = "dalle" /\ ~IsBlank(options.outputPath)
    /\ pc = "done" /\ returned
    /\ Record.status = "failed"
    /\ progressWrites = <<0, 5, 0>>

\* C6: when a step after validation throws, the record the job leaves is
\* failed with progress 0, the thrown message as error, a message describing
\* the failure and an end time, and the job has written no result.
C6_FailureRecord ==
    (Validation = Valid /\ errorMessage # Absent /\ Settled) =>
        /\ Record.status = "failed"
        /\ Record.progress = 0
        /\ Record.error = errorMessage
        /\ Record.message = "Generation failed: " \o errorMessage[1]
        /\ Record.endTime # Absent
        /\ result = Absent
        /\ fresh => Record.result = Absent

\* The backend call of a job with generated references has thrown, and the
\* job is done.
C6_Witness ==
    /\ Validation = Valid /\ pc = "done"
    /\ Len(generatedReferences) > 0 /\ Len(backendCalls) = 1
    /\ errorMessage # Absent /\ Record.status = "failed"

\* C7: on a fresh status path, a completed record has progress 100, a result
\* and an end time; the end time is present exactly when the record is
\* completed or failed; progress is 100 only when the record is completed.
C7_CompletedRecord ==
    (fresh /\ Exists) =>
        /\ Record.status = "completed" =>
              /\ Record.progress = 100
              /\ Record.result # Absent
              /\ Record.endTime # Absent
        /\ Record.endTime # Absent <=> Record.status \in {"completed", "failed"}
        /\ Record.progress = 100 => Record.status = "completed"

\* A job on a fresh path has completed.
C7_Witness ==
    /\ fresh /\ Exists /\ Record.status = "completed"
    /\ Record.result = result /\ pc = "logCompleted"

\* C8 (as claimed): in every state of the record, also of a job started on a
\* path that holds the record of an earlier job, result is present only when
\* status is completed and error only when status is failed.
C8_ResultAndErrorMatchStatus ==
    Exists =>
        /\ Record.result # Absent => Record.status = "completed"
        /\ Record.error # Absent => Record.status = "failed"

\* C9: the logs of the record are append-only: every step leaves the earlier
\* logs as a prefix of the new ones.
C9_LogsAppendOnly ==
    [][Exists => IsPrefix(Record.logs, Record'.logs)]_vars

\* A job on a used path has run to its end, cleanup included: the record
\* holds the earlier job's logs followed by its own.
C9_Witness ==
    /\ ~fresh /\ pc = "done" /\ Len(unlinkCalls) > 0
    /\ Len(Record.logs) > 10

\* The paths of the deletions attempted so far.
UnlinkedPaths == [i \in DOMAIN unlinkCalls |-> unlinkCalls[i].path]

\* C10: when the job has ended, completed or failed, with cleanupReferences a
\* deletion has been attempted for every generated reference path, whether
\* or not an earlier deletion failed; without cleanupReferences no deletion
\* is ever attempted and the generated references stay on disk.
C10_CleanupOnEveryExit ==
    /\ pc = "done" /\ options.cleanupReferences
          => UnlinkedPaths = generatedReferences
    /\ ~options.cleanupReferences =>
          /\ unlinkCalls = <<>>
          /\ \A i \in DOMAIN referencePaths : referencePaths[i] \in disk

\* A failed job has ended after a deletion that failed was followed by the
\* attempt for the next path.
C10_Witness ==
    /\ pc = "done" /\ options.cleanupReferences
    /\ Record.status = "failed"
    /\ Len(unlinkCalls) >= 2 /\ ~unlinkCalls[1].ok

\* The fields of the record other than logs.
OutcomeFields ==
    {"id", "status", "progress", "message", "result", "error", "startTime",
     "endTime"}

\* A step of the cleanup phase as the record sees it: every field but logs is
\* left as it was, exactly one entry is appended to the logs, and the job goes
\* on with the next path or ends.
CleanupFrame ==
    /\ \A f \in OutcomeFields : Record'[f] = Record[f]
    /\ IsPrefix(Record.logs, Record'.logs)
    /\ Len(Record'.logs) = Len(Record.logs) + 1
    /\ pc' \in {"cleanupLoop", "done"}
    /\ errorMessage' = errorMessage

\* C11: every step of the cleanup phase, whether its deletion succeeds or
\* fails, leaves status, progress, message, result, error, startTime and
\* endTime of the record as they were and only appends to the logs; it raises
\* nothing: the job goes on with the next path or ends.
C11_CleanupFrame ==
    [][(pc \in {"cleanupStart", "cleanupLoop"}) => CleanupFrame]_vars

\* A completed job has ended after a cleanup in which one deletion succeeded
\* and another failed.
C11_Witness ==
    /\ pc = "done" /\ Record.status = "completed" /\ Record.progress = 100
    /\ \E i, j \in DOMAIN unlinkCalls : unlinkCalls[i].ok /\ ~unlinkCalls[j].ok

\* The positions of the catch block and of what follows it.
Caught == pc \in {"fail", "logError", "cleanupStart", "cleanupLoop", "done"}

\* C12: for every request, valid or not, and every outcome of the external
\* calls, generate3DModelAsync returns its status path: the job runs on until
\* its end, it has returned when it ends, and an error raised by validation,
\* reference generation, dispatch or the backend is only ever held by the
\* catch block, which records it in a failed record.
C12_AlwaysReturnsStatusPath ==
    /\ pc = "done" => returned
    /\ pc # "done" => ENABLED Next
    /\ errorMessage # Absent => Caught
    /\ (errorMessage # Absent /\ Settled) =>
          /\ Record.status = "failed"
          /\ Record.error = errorMessage

\* The job of a request without an output path has ended: the call has
\* returned and the rejection is in the record.
C12_Witness ==
    /\ IsBlank(options.outputPath) /\ pc = "done" /\ returned
    /\ Record.status = "failed"
    /\ Record.error = Some("Output path is required and cannot be empty")

\* C13: when every step that can be taken is eventually taken and every
\* external call eventually returns or throws, every job eventually leaves
\* its try and catch blocks with a completed or failed record; a polled task
\* that has answered every attempt without a terminal status leads to a
\* failed record holding the time-out error.
C13_EventuallyCompletedOrFailed ==
    /\ <>(Settled /\ Record.status \in {"completed", "failed"})
    /\ (pc = "meshyPoll" /\ pollAttempt = MaxAttempts)
          ~> (Settled /\ Record.status = "failed"
                      /\ Record.error = Some(PollTimeout))

\* A job whose polled task never reported a terminal status has ended failed
\* after the last attempt.
C13_Witness ==
    /\ pc = "done" /\ pollAttempt = MaxAttempts
    /\ Record.status = "failed" /\ Record.error = Some(PollTimeout)

\* The views of the generateImage calls issued so far, in order.
CallViews == [i \in DOMAIN imageCalls |-> imageCalls[i].view]

\* The list without its 'front' entries, the others in their order.
WithoutFront(views) == SelectSeq(views, LAMBDA v : v # "front")

\* C14: for every list of pairwise different views that contains 'front',
\* generateReferenceImages issues the call for 'front' first, wherever
\* 'front' stands in the list, and then the calls for the other views in
\* the order the list gives them.
C14_FrontFirst ==
    (helperCall # NoCall /\ helperCall[1].fn = "generateReferenceImages"
        /\ \E i \in DOMAIN helperCall[1].views : helperCall[1].views[i] = "front") =>
        /\ IsPrefix(CallViews, <<"front">> \o WithoutFront(helperCall[1].views))
        /\ pc = "referencesAwait" =>
              CallViews = <<"front">> \o WithoutFront(helperCall[1].views)

\* generateReferenceImages has returned for a list that names 'front' last,
\* after two other views.
C14_Witness ==
    /\ helperCall # NoCall /\ helperCall[1].fn = "generateReferenceImages"
    /\ Len(helperCall[1].views) = 3 /\ helperCall[1].views[3] = "front"
    /\ pc = "referencesAwait"
    /\ CallViews = <<"front", helperCall[1].views[1], helperCall[1].views[2]>>

\* The output paths of the settled generateImage calls that saved their
\* image, in the order of the calls.
SavedPaths ==
    LET settled == [i \in 1..Len(imageOutcomes) |-> i]
        saved   == SelectSeq(settled, LAMBDA i : imageOutcomes[i])
    IN  [k \in DOMAIN saved |-> imageCalls[saved[k]].outputPath]

\* C15: generateReferenceImages called by itself never raises when the call
\* of a view throws: it holds exactly the saved paths of the views that
\* succeeded, in generation order and without a placeholder for a failed
\* view, and when it returns it has issued one call for every view, the
\* views after a failed one included.
C15_FailedViewsAreSkipped ==
    (helperCall # NoCall /\ helperCall[1].fn = "generateReferenceImages") =>
        /\ errorMessage = Absent
        /\ pc \in {"helper", "referenceLoop", "imageAwait", "referencesAwait"}
        /\ referencePaths = SavedPaths
        /\ pc = "referencesAwait" =>
              /\ Len(imageCalls) = Len(helperCall[1].views)
              /\ Len(imageOutcomes) = Len(imageCalls)

\* Of three views the second failed: the call has returned the paths of the
\* first and the third.
C15_Witness ==
    /\ helperCall # NoCall /\ helperCall[1].fn = "generateReferenceImages"
    /\ helperCall[1].views = <<"front", "back", "top">>
    /\ pc = "referencesAwait"
    /\ imageOutcomes = <<TRUE, FALSE, TRUE>>
    /\ referencePaths = <<<<"test_object_ref_front", "png">>,
                          <<"test_object_ref_top", "png">>>>

\* A helper that computes a value was called with these arguments and has
\* returned.
Returned(fn) ==
    helperCall # NoCall /\ helperCall[1].fn = fn /\ pc = "helperReturned"

\* C16: for every model, every image count from 0 up and both values of
\* preferTurbo, selectModelVariant returns one of the variants
\* AVAILABLE_VARIANTS lists for that model.
C16_SelectedVariantIsAvailable ==
    Returned("selectModelVariant") =>
        ret[1] \in AVAILABLE_VARIANTS[helperCall[1].model]

\* selectModelVariant has returned 'single' for a model with a single
\* variant, several images and preferTurbo set.
C16_Witness ==
    /\ Returned("selectModelVariant")
    /\ helperCall[1].model = "hunyuan-world"
    /\ helperCall[1].inputImageCount = MaxInputImages
    /\ helperCall[1].preferTurbo
    /\ ret = Some("single")

\* The request is valid but for its variant: it has an output path, a known
\* model, a known format or none, and a prompt or an image.
OtherwiseValid(o) ==
    /\ ~IsBlank(o.outputPath)
    /\ o.model \in Model3DModel
    /\ Falsy(o.format) \/ o.format \in Model3DFormat
    /\ ~NoPromptNoImages(o)

\* C17: of the requests that are valid but for their variant,
\* validate3DModelOptions accepts one with an explicit variant exactly when
\* the variant is listed for the model in AVAILABLE_VARIANTS; for
\* hunyuan-world and seed3d every variant of the enumeration other than
\* 'single' is rejected with the message that names the model.
C17_AcceptsAvailableVariants ==
    (Returned("validate3DModelOptions")
        /\ OtherwiseValid(helperCall[1].options)
        /\ ~Falsy(helperCall[1].options.variant)) =>
        LET o == helperCall[1].options
        IN  /\ ret[1] = Valid <=> o.variant \in AVAILABLE_VARIANTS[o.model]
            /\ (o.model = "hunyuan-world" /\ o.variant \in Model3DVariant \ {"single"})
                  => ret[1] = "Hunyuan World model only supports single variant"
            /\ (o.model = "seed3d" /\ o.variant \in Model3DVariant \ {"single"})
                  => ret[1] = "Seed3D model only supports single variant"

\* validate3DModelOptions has rejected the variant multi-turbo of a seed3d
\* request that is valid otherwise.
C17_Witness ==
    /\ Returned("validate3DModelOptions")
    /\ OtherwiseValid(helperCall[1].options)
    /\ helperCall[1].options.model = "seed3d"
    /\ helperCall[1].options.variant = "multi-turbo"
    /\ ret = Some("Seed3D model only supports single variant")

\* C18: for every option set o with a recognised model, merge3DWithDefaults
\* is idempotent and keeps what the caller supplied: merging the merged set
\* again gives the same set, every field supplied in o has its supplied
\* value in the merged set, every field absent from o has the default of
\* the model, and the merged set has no other field.
C18_MergeIdempotentUserPreserving ==
    Returned("merge3DWithDefaults") =>
        LET o        == helperCall[1].options
            merged   == ret[1]
            defaults == getDefault3DOptions(o.model)
        IN  /\ merge3DWithDefaults(merged) = merged
            /\ DOMAIN merged = DOMAIN o \cup DOMAIN defaults
            /\ \A f \in DOMAIN o : merged[f] = o[f]
            /\ \A f \in DOMAIN defaults \ DOMAIN o : merged[f] = defaults[f]

\* merge3DWithDefaults has returned for a hunyuan3d request that supplies
\* its own reference views and no variant: the views are kept and the
\* variant is the default of the model.
C18_Witness ==
    /\ Returned("merge3DWithDefaults")
    /\ helperCall[1].options.model = "hunyuan3d"
    /\ "variant" \notin DOMAIN helperCall[1].options
    /\ "referenceViews" \in DOMAIN helperCall[1].options
    /\ ret[1].referenceViews = <<"front", "left">>
    /\ ret[1].variant = "multi"

\* Scenario A: a model with the single variant only, no variant, a prompt,
\* no input image, an output path, references generated automatically.
ScenarioA(o) ==
    /\ o.model \in Model3DModel /\ AVAILABLE_VARIANTS[o.model] = {"single"}
    /\ Falsy(o.variant) /\ Falsy(o.format)
    /\ ~Falsy(o.prompt) /\ Len(o.inputImagePaths) = 0
    /\ ~IsBlank(o.outputPath)
    /\ o.autoGenerateReferences

\* C19: in scenario A one reference image, the front view, is asked for and
\* the variant resolves to 'single'; when the reference call saved its image
\* and the backend call returned its result, the job settles completed and
\* the savedPaths of the result are exactly the output path of the request.
C19_ScenarioA ==
    ScenarioA(options) =>
        /\ CallViews \in {<<>>, <<"front">>}
        /\ pc \in {"markCalling", "markModel", "dispatch", "backendAwait"}
              => actualVariant = "single"
        /\ (Settled /\ imageOutcomes = <<TRUE>> /\ result # Absent) =>
              /\ actualVariant = "single"
              /\ Record.status = "completed"
              /\ Record.result # Absent
              /\ Record.result[1].savedPaths = <<options.outputPath>>

\* A seed3d job of scenario A has ended completed on a fresh status path.
C19_Witness ==
    /\ ScenarioA(options) /\ options.model = "seed3d" /\ fresh
    /\ pc = "done" /\ imageOutcomes = <<TRUE>>
    /\ Record.status = "completed"
    /\ Record.result[1].operation = "seed3DGenerate"
    /\ Record.result[1].savedPaths = <<<<"out", "glb">>>>

\* Scenario B: a valid request with three supplied input images and no
\* explicit variant.
ScenarioB(o) ==
    /\ validate3DModelOptions(o) = Valid
    /\ Len(o.inputImagePaths) = 3
    /\ Falsy(o.variant)

\* C20 (as claimed): in scenario B, for every model whose default variant is
\* 'single', the variant resolves to the multi form and the dispatcher
\* invokes a multi-image operation.
C20_MultiForEveryModel ==
    (ScenarioB(options) /\ DEFAULT_VARIANTS[options.model] = "single"
        /\ Len(backendCalls) = 1) =>
        /\ actualVariant = "multi"
        /\ backendCalls[1].operation \in MultiImageOperations

\* C20 (amended): in scenario B, for a model that has a multi variant
\* (trellis, hunyuan3d, meshy) the variant resolves to 'multi' and the
\* dispatcher invokes the model's multi-image operation with the three
\* images; for a model with the single variant only (hunyuan-world, seed3d)
\* the variant resolves to 'single' and the dispatcher invokes the model's
\* one operation with the first image.  No reference image is generated.
C20_MultiWhereAvailable ==
    (ScenarioB(options) /\ Len(backendCalls) = 1) =>
        /\ imageCalls = <<>>
        /\ IF "multi" \in AVAILABLE_VARIANTS[options.model]
           THEN /\ actualVariant = "multi"
                /\ backendCalls[1].operation \in MultiImageOperations
                /\ backendCalls[1].operation
                      = BackendOperation(options.model, "multi")
                /\ backendCalls[1].images = options.inputImagePaths
           ELSE /\ actualVariant = "single"
                /\ backendCalls[1].operation \notin MultiImageOperations
                /\ backendCalls[1].images = <<options.inputImagePaths[1]>>

\* A meshy job of scenario B has called the multi-image operation.
C20_Witness ==
    /\ ScenarioB(options) /\ options.model = "meshy"
    /\ pc = "backendAwait"
    /\ backendCalls[1].operation = "meshyGenerateMulti"
    /\ Len(backendCalls[1].images) = 3

\* The output paths of the calls before call number i that saved their
\* image, in the order of the calls.
SavedBefore(i) ==
    LET earlier == [k \in 1..(i - 1) |-> k]
        saved   == SelectSeq(earlier, LAMBDA k : imageOutcomes[k])
    IN  [k \in DOMAIN saved |-> imageCalls[saved[k]].outputPath]

\* C21: in generateReferenceImages the first call carries no conditioning
\* input, and every later call carries exactly the paths saved by the
\* earlier calls that succeeded, all of them and in generation order; when
\* every earlier call succeeded, call number i carries i - 1 paths.
C21_ConditionedOnAllSaved ==
    (helperCall # NoCall /\ helperCall[1].fn = "generateReferenceImages") =>
        \A i \in DOMAIN imageCalls :
            /\ i = 1 => imageCalls[i].inputImagePaths = Absent
            /\ i > 1 =>
                  /\ imageCalls[i].inputImagePaths = Some(SavedBefore(i))
                  /\ (\A k \in 1..(i - 1) : imageOutcomes[k]) =>
                        Len(imageCalls[i].inputImagePaths[1]) = i - 1

\* The third call has been issued after two calls that saved their images:
\* it is conditioned on both, the first one first.
C21_Witness ==
    /\ helperCall # NoCall /\ helperCall[1].fn = "generateReferenceImages"
    /\ helperCall[1].views = <<"back", "front", "left">>
    /\ Len(imageCalls) = 3 /\ imageOutcomes = <<TRUE, TRUE>>
    /\ imageCalls[2].inputImagePaths = Some(<<<<"test_object_ref_front", "png">>>>)
    /\ imageCalls[3].inputImagePaths =
           Some(<<<<"test_object_ref_front", "png">>,
                  <<"test_object_ref_back", "png">>>>)

\* C22: selectModelVariant returns 'single' for the models with a single
\* variant (hunyuan-world, seed3d) whatever the image count; for the others
\* the multi form when the image count is above 1 and the single form when
\* it is 1 or 0, in its turbo sub-form exactly when preferTurbo is set and
\* the model is hunyuan3d.
C22_SelectedVariant ==
    Returned("selectModelVariant") =>
        LET model == helperCall[1].model
            n     == helperCall[1].inputImageCount
            form  == IF n > 1 THEN "multi" ELSE "single"
        IN  /\ model \in {"hunyuan-world", "seed3d"} => ret[1] = "single"
            /\ model \in {"trellis", "meshy"} => ret[1] = form
            /\ model = "hunyuan3d" =>
                  ret[1] = IF helperCall[1].preferTurbo
                           THEN form \o "-turbo" ELSE form
            /\ Includes(ret[1], "turbo")
                  <=> (helperCall[1].preferTurbo /\ model = "hunyuan3d")

\* selectModelVariant has returned the turbo single form for a hunyuan3d
\* request without images.
C22_Witness ==
    /\ Returned("selectModelVariant")
    /\ helperCall[1].model = "hunyuan3d"
    /\ helperCall[1].inputImageCount = 0
    /\ helperCall[1].preferTurbo
    /\ ret = Some("single-turbo")

\* C23: for every recognised model validateAndGetVariant returns a variant
\* listed for the model in AVAILABLE_VARIANTS: the variant given when it is
\* listed, and otherwise (none given, or one that is not listed) the default
\* of the model, which is listed for every model.
C23_VariantOrDefault ==
    /\ \A m \in Model3DModel : DEFAULT_VARIANTS[m] \in AVAILABLE_VARIANTS[m]
    /\ Returned("validateAndGetVariant") =>
          LET model   == helperCall[1].model
              variant == helperCall[1].variant
          IN  /\ ret[1] \in AVAILABLE_VARIANTS[model]
              /\ ret[1] = IF variant \in AVAILABLE_VARIANTS[model]
                          THEN variant ELSE DEFAULT_VARIANTS[model]

\* validateAndGetVariant has replaced a turbo variant asked of trellis by
\* the default of the model.
C23_Witness ==
    /\ Returned("validateAndGetVariant")
    /\ helperCall[1].model = "trellis"
    /\ helperCall[1].variant = "multi-turbo"
    /\ ret = Some("single")

\* The defects validate3DModelOptions looks for, each with its message, in
\* the order output path, model, variant, format, variant of the model,
\* image or prompt.
Defects(o) ==
    <<[found |-> IsBlank(o.outputPath),
       message |-> "Output path is required and cannot be empty"],
      [found |-> o.model \notin Model3DModel,
       message |-> "Model must be one of: trellis, hunyuan3d, hunyuan-world, seed3d, meshy"],
      [found |-> ~Falsy(o.variant) /\ o.variant \notin Model3DVariant,
       message |-> "Variant must be one of: single, multi, single-turbo, multi-turbo"],
      [found |-> ~Falsy(o.format) /\ o.format \notin Model3DFormat,
       message |-> "Format must be one of: glb, gltf"],
      [found |-> o.model = "trellis" /\ o.variant \in {"single-turbo", "multi-turbo"},
       message |-> "Trellis model does not support turbo variants"],
      [found |-> o.model = "hunyuan-world" /\ o.variant \notin {Undefined, "", "single"},
       message |-> "Hunyuan World model only supports single variant"],
      [found |-> o.model = "seed3d" /\ o.variant \notin {Undefined, "", "single"},
       message |-> "Seed3D model only supports single variant"],
      [found |-> o.model = "meshy" /\ o.variant \in {"single-turbo", "multi-turbo"},
       message |-> "Meshy model does not support turbo variants"],
      [found |-> NoPromptNoImages(o),
       message |-> "Either input images or a prompt is required for 3D model generation"]>>

\* C24: validate3DModelOptions reports the first defect in the order output
\* path, model, variant, format, variant of the model, image or prompt: a
\* request with several defects raises the error of the earliest one, a
\* request without defect is accepted, and the error of the missing image or
\* prompt is raised only when no other defect is found.
C24_FirstDefectReported ==
    Returned("validate3DModelOptions") =>
        LET defects == Defects(helperCall[1].options)
            found   == {i \in DOMAIN defects : defects[i].found}
        IN  /\ found = {} <=> ret[1] = Valid
            /\ found # {} =>
                  \E i \in found :
                      /\ \A j \in found : i <= j
                      /\ ret[1] = defects[i].message
            /\ ret[1] = defects[Len(defects)].message <=> found = {Len(defects)}

\* validate3DModelOptions has reported the empty output path of a request
\* that also has an unknown model, variant and format and neither prompt
\* nor image.
C24_Witness ==
    /\ Returned("validate3DModelOptions")
    /\ IsBlank(helperCall[1].options.outputPath)
    /\ helperCall[1].options.model = "dalle"
    /\ helperCall[1].options.variant = "quad"
    /\ helperCall[1].options.format = "obj"
    /\ NoPromptNoImages(helperCall[1].options)
    /\ ret = Some("Output path is required and cannot be empty")

\* The number of images the job works with: those supplied, or, when none
\* is supplied, those the reference calls have saved.
EffectiveImageCount ==
    IF Len(options.inputImagePaths) > 0
    THEN Len(options.inputImagePaths)
    ELSE Cardinality({i \in DOMAIN imageOutcomes : imageOutcomes[i]})

\* C25: the variant the dispatcher works with is the variant the request
\* names whenever it names one, whatever the number of images, and
\* otherwise selectModelVariant(model, n), n being the number of images the
\* job works with after the optional reference generation; the operation
\* invoked is the one of the model for that variant.
C25_DispatchedVariant ==
    (Validation = Valid /\ Len(backendCalls) = 1) =>
        LET variant == IF ~Falsy(options.variant) THEN options.variant
                       ELSE selectModelVariant(options.model,
                                               EffectiveImageCount, FALSE)
        IN  /\ actualVariant = variant
            /\ backendCalls[1].operation
                  = BackendOperation(options.model, variant)

\* A trellis job that names the variant single and brings three images has
\* called the single-image operation.
C25_Witness ==
    /\ options.model = "trellis" /\ options.variant = "single"
    /\ Len(options.inputImagePaths) = 3
    /\ Len(backendCalls) = 1
    /\ backendCalls[1].operation = "trellisGenerate3DSingle"

\* C26: when references are generated automatically (no input image, a
\* prompt, autoGenerateReferences), the views the generator was called with
\* are the referenceViews of the request if the variant the job resolves
\* and dispatches with is a multi form, and 'front' alone otherwise.
C26_ViewsFollowResolvedVariant ==
    (Validation = Valid
        /\ GeneratesReferences(options, options.inputImagePaths)
        /\ actualVariant # Undefined) =>
        LET views == IF Includes(actualVariant, "multi")
                     THEN options.referenceViews ELSE <<"front">>
        IN  /\ sortedViews = SortViews(views)
            /\ CallViews = SortViews(views)

\* A job that names a multi variant and the views top and front has
\* generated both and called the backend.
C26_Witness ==
    /\ options.variant = "multi-turbo"
    /\ options.referenceViews = <<"top", "front">>
    /\ GeneratesReferences(options, options.inputImagePaths)
    /\ CallViews = <<"front", "top">>
    /\ Len(backendCalls) = 1 /\ actualVariant = "multi-turbo"

\* The job has written its completion: the record holds its result.
Completed == errorMessage = Absent /\ (pc = "logCompleted" \/ Settled)

\* C27 (as claimed): the result stored at completion of a job that generated
\* references records auto_generated_references equal to the generated
\* paths, the reference backend used, and reference_views_generated equal
\* to the views that were passed to the generator; the result of a job that
\* generated no reference has none of these fields.
C27_MetadataMatchesGeneration ==
    Completed =>
        LET stored == Record.result[1]
        IN  IF Len(generatedReferences) > 0
            THEN /\ stored.auto_generated_references = Some(generatedReferences)
                 /\ stored.reference_model_used = Some(options.referenceModel)
                 /\ stored.reference_views_generated = Some(ViewsRequested(options))
            ELSE /\ stored.auto_generated_references = Absent
                 /\ stored.reference_model_used = Absent
                 /\ stored.reference_views_generated = Absent

\* The answers that did not end the polling: the task is still in progress.
NonTerminal(responses) ==
    \A i \in 1..Len(responses) : PollStep(responses[i]) = PollWaits

\* C28: pollMeshyTaskStatus issues at most maxAttempts status requests; every
\* answer before the last one is non-terminal, so no request follows a
\* terminal answer; at the first SUCCEEDED the function has returned, at
\* the first FAILED, EXPIRED or error payload it has thrown that error, and
\* it throws the timeout error exactly when maxAttempts answers in a row
\* were non-terminal.
C28_PollingIsBounded ==
    LET n == Len(pollResponses)
    IN  /\ n <= MaxAttempts
        /\ NonTerminal(SubSeq(pollResponses, 1, n - 1))
        /\ n > 0 =>
              LET step == PollStep(pollResponses[n])
              IN  CASE step = PollReturns ->
                         /\ pc # "meshyPoll"
                         /\ errorMessage \in
                                {Absent, Some("No model URL in Meshy response")}
                    [] step = PollWaits ->
                         \/ pc = "meshyPoll"
                         \/ n = MaxAttempts /\ errorMessage = Some(PollTimeout)
                    [] OTHER ->
                         pc # "meshyPoll" /\ errorMessage = Some(step)
        /\ errorMessage = Some(PollTimeout) <=>
              /\ n = MaxAttempts
              /\ NonTerminal(pollResponses)
              /\ pc # "meshyPoll"

C28_Witness ==
    /\ pollResponses = <<"IN_PROGRESS", "IN_PROGRESS", "SUCCEEDED">>
    /\ pc = "meshyDownload"

\* How many generateImage calls the job has issued for a view.
CallsFor(view) ==
    Cardinality({i \in DOMAIN imageCalls : imageCalls[i].view = view})

\* C29: a job invokes the 3D backend operation at most once and never issues
\* a second generateImage call for a view, whatever the outcome of the
\* first; when the job is over, a job that generated references has issued
\* exactly one call for each view it asked for and none for another view,
\* and any other job has issued none.
C29_NoRetry ==
    /\ Len(backendCalls) <= 1
    /\ \A i \in DOMAIN imageCalls : CallsFor(imageCalls[i].view) = 1
    /\ Settled =>
          IF Validation = Valid
                 /\ GeneratesReferences(options, options.inputImagePaths)
          THEN LET views == ViewsRequested(options)
               IN  /\ \A k \in DOMAIN views : CallsFor(views[k]) = 1
                   /\ Len(imageCalls) = Len(views)
          ELSE imageCalls = <<>>

C29_Witness ==
    /\ Settled
    /\ Len(imageCalls) = 2
    /\ imageOutcomes = <<TRUE, FALSE>>
    /\ Len(backendCalls) = 1
    /\ errorMessage # Absent

\* The job has written this progress value.
Written(progress) ==
    \E i \in DOMAIN progressWrites : progressWrites[i] = progress

\* The progress values the job wrote before the write of its catch block.
StageWrites ==
    LET n == Len(progressWrites)
    IN  IF n > 1 /\ progressWrites[n] = 0
        THEN SubSeq(progressWrites, 1, n - 1) ELSE progressWrites

StrictlyIncreasing(s) == \A i \in 1..(Len(s) - 1) : s[i] < s[i + 1]

\* C30: the stages of a job run in the order pending(0), processing(5),
\* validation, input check(10), optional reference generation(20), variant
\* resolution(30), dispatch(40, then 50 for some models), finalize(90),
\* completed(100).  The checkpoints written before a failure are strictly
\* increasing and none is written without the one of the stage before it;
\* the input check follows a passed validation; image calls are issued
\* only in the reference stage; the variant is resolved after every image
\* call has settled; the backend is invoked only after that and after
\* checkpoint 40; 90 and 100 are written only after the backend call has
\* returned its result; a completed job wrote strictly increasing values
\* that end with 100.
C30_StagesInOrder ==
    /\ StrictlyIncreasing(StageWrites)
    /\ \A i \in DOMAIN StageWrites :
          StageWrites[i] \in {0, 5, 10, 20, 30, 40, 50, 90, 100}
    /\ Written(5) => progressWrites[1] = 0
    /\ Written(10) => Written(5) /\ Validation = Valid
    /\ Written(20) => Written(10)
    /\ Written(30) => Written(10)
    /\ Written(40) => Written(30)
    /\ Written(50) => Written(40)
    /\ Written(90) => Written(40)
    /\ Written(100) => Written(90)
    /\ imageCalls # <<>> => Written(20)
    /\ (Written(30) \/ actualVariant # Undefined \/ backendCalls # <<>>) =>
          /\ Len(imageOutcomes) = Len(imageCalls)
          /\ Written(20) => Len(imageCalls) = Len(ViewsRequested(options))
    /\ actualVariant # Undefined => Written(30)
    /\ backendCalls # <<>> => Written(40) /\ actualVariant # Undefined
    /\ result # Absent => backendCalls # <<>>
    /\ Written(90) => result # Absent
    /\ Completed =>
          /\ StrictlyIncreasing(progressWrites)
          /\ progressWrites[Len(progressWrites)] = 100
          /\ Record.status = "completed"

C30_Witness ==
    /\ Completed
    /\ progressWrites = <<0, 5, 10, 20, 30, 40, 50, 90, 100>>

\* The call of a status helper, the record it found and the record it left.
StatusCall == helperCall[1]

Before == StatusCall.file[1]

\* C33: updateStatusFile on an existing record gives every field named in
\* the partial record the value given there and leaves every other field
\* as it was; a partial record of progress and message leaves status,
\* result, error, startTime, endTime and logs as they were; addLogToStatus
\* on an existing record appends one entry to logs and leaves every other
\* field as it was.
C33_UpdateFrame ==
    (pc = "helperReturned" /\ StatusCall.fn \in {"updateStatusFile", "addLogToStatus"}
         /\ StatusCall.file # NoFile) =>
        /\ Exists
        /\ DOMAIN Record = DOMAIN Before
        /\ StatusCall.fn = "updateStatusFile" =>
              /\ \A f \in DOMAIN Before :
                    Record[f] = IF f \in DOMAIN StatusCall.status
                                THEN StatusCall.status[f] ELSE Before[f]
              /\ DOMAIN StatusCall.status \subseteq {"progress", "message"} =>
                    \A f \in {"status", "result", "error", "startTime",
                               "endTime", "logs"} : Record[f] = Before[f]
        /\ StatusCall.fn = "addLogToStatus" =>
              /\ \A f \in DOMAIN Before \ {"logs"} : Record[f] = Before[f]
              /\ Len(Record.logs) = Len(Before.logs) + 1
              /\ IsPrefix(Before.logs, Record.logs)

C33_Witness ==
    /\ pc = "helperReturned"
    /\ StatusCall.fn = "updateStatusFile"
    /\ StatusCall.file = EarlierCompleted
    /\ StatusCall.status = [progress |-> 10, message |-> "Checking input images..."]
    /\ Record.status = "completed" /\ Record.progress = 10
    /\ Record.result = Some(EarlierResult)

\* The prompt of an image call holds the text of the caller: it has the form
\* of line 133, which starts with that text.
CarriesCallerText(call) ==
    \E view \in ReferenceViews :
        call.prompt = ViewPrompt(ReferenceArguments.prompt, view, 1)

\* The call is conditioned on at least one image.
Conditioned(call) ==
    call.inputImagePaths # Absent /\ call.inputImagePaths[1] # <<>>

\* C36 (as claimed): every generateImage call of generateReferenceImages
\* carries the text of the caller in its prompt or is conditioned on a
\* list of images that is not empty.
C36_PromptOrConditioning ==
    \A i \in DOMAIN imageCalls :
        CarriesCallerText(imageCalls[i]) \/ Conditioned(imageCalls[i])

\* C37 (as claimed): the variant merge3DWithDefaults fills in for a request
\* that gives none is DEFAULT_VARIANTS[model], the variant that
\* validateAndGetVariant returns for the same model and no variant.
C37_DefaultSourcesAgree ==
    (Returned("merge3DWithDefaults")
         /\ "variant" \notin DOMAIN helperCall[1].options) =>
        LET model == helperCall[1].options.model
        IN  /\ ret[1].variant = DEFAULT_VARIANTS[model]
            /\ ret[1].variant = validateAndGetVariant(model, Undefined)

\* C35 (as claimed): in a job, the generateImage calls of different views
\* have different output paths, none of them the output path of the 3D
\* model, and the list generateReferenceImages holds has no path twice.
C35_DistinctReferencePaths ==
    /\ \A i, j \in DOMAIN imageCalls :
          imageCalls[i].view # imageCalls[j].view =>
              imageCalls[i].outputPath # imageCalls[j].outputPath
    /\ \A i \in DOMAIN imageCalls : imageCalls[i].outputPath # options.outputPath
    /\ \A i, j \in DOMAIN referencePaths :
          i # j => referencePaths[i] # referencePaths[j]

\* C34 (as claimed): every 3D backend operation a job calls is given at
\* least one input image, and a job that ends up with no image fails with
\* no backend operation called.
C34_NeverDispatchedWithoutImages ==
    /\ \A i \in DOMAIN backendCalls : Len(backendCalls[i].images) > 0
    /\ (Settled /\ Len(finalInputPaths) = 0) =>
          errorMessage # Absent /\ backendCalls = <<>>

\* The paths of the unlinkSync attempts of a pipeline.
UnlinkPaths(calls) == [i \in DOMAIN calls |-> calls[i].path]

\* C38 (as claimed): for a request that passes the strict validation and
\* the same outcomes of the external calls, generate3DModel issues the
\* generateImage calls (the same views), resolves the variant, invokes the
\* backend operation with the images, and attempts the deletions that the
\* job of generate3DModelAsync did.
C38_SamePipeline ==
    (parked # Absent /\ pc = "syncDone") =>
        /\ imageCalls = Other.imageCalls
        /\ actualVariant = Other.actualVariant
        /\ backendCalls = Other.backendCalls
        /\ UnlinkPaths(unlinkCalls) = UnlinkPaths(Other.unlinkCalls)

(***************************************************************************)
(* Properties of two jobs in one process.                                  *)
(***************************************************************************)
\* Where the next step of a unit is an addLogToStatus call and nothing else
\* that writes the status file.
LogSteps ==
    {"logStart", "logNoInputs", "logVariant", "logCompleted", "logError",
     "cleanupStart", "cleanupLoop"}

\* The line the log of line 470 leaves for a request, written at time t.
StartLine(o, t) ==
    LogLine(t, "Starting 3D generation with model: " \o o.model
                   \o ", variant: " \o o.variant)

\* C39: when the two jobs have the same status path, every step of either
\* job leaves the log lines that are in the record where they are and adds
\* its own after them: the lines already appended are a prefix of the new
\* log, and an addLogToStatus step makes the log one line longer.
C39_NoAppendLost ==
    [][(statusShared /\ Exists) =>
          /\ Exists'
          /\ IsPrefix(Record.logs, Record'.logs)
          /\ (pc \in LogSteps) =>
                Len(Record'.logs) = Len(Record.logs) + 1]_vars

\* Both jobs have ended on the shared status path, and the record holds the
\* first log line of each, that of the job that ran second after the other.
C39_Witness ==
    /\ statusShared
    /\ parked # Absent
    /\ pc = "done"
    /\ Other.pc = "done"
    /\ \E i, j \in DOMAIN Record.logs :
          /\ i # j
          /\ \E t \in 0..now : Record.logs[i] = StartLine(options, t)
          /\ \E t \in 0..now : Record.logs[j] = StartLine(Other.options, t)

\* The reference images a unit has generated and not yet handed to a
\* backend operation.
HeldReferences(u) ==
    IF u.backendCalls = <<>> /\ u.errorMessage = Absent /\ u.pc # "done"
    THEN {u.referencePaths[i] : i \in DOMAIN u.referencePaths}
    ELSE {}

\* The step is the save of an image at the path by the unit that runs.
SavesAt(path) ==
    /\ imageOutcomes' = Append(imageOutcomes, TRUE)
    /\ imageCalls[Len(imageCalls)].outputPath = path

\* C32 (as claimed): no step of a job deletes or overwrites a reference
\* image that the other job has generated and not yet handed to its backend
\* operation.
C32_ReferencesOwned ==
    [][(parked # Absent /\ parked' = parked) =>
          \A path \in HeldReferences(Other) :
              /\ path \in disk'
              /\ ~SavesAt(path)]_vars

\* What the file at the status path of a unit shows when the unit is its
\* only writer and runs as it does alone: the file is there once the unit
\* has written, its progress is the last the unit wrote, and its error is
\* not that of a reference image the unit generated and cannot read.
OwnRecord(u, file) ==
    /\ (file = NoFile) <=> (u.progressWrites = <<>>)
    /\ file # NoFile =>
          /\ file[1].progress = u.progressWrites[Len(u.progressWrites)]
          /\ file[1].error # Some(MissingFile)

\* The unit waits for a backend operation or between two polls.
Blocked(u) == u.pc \in {"backendAwait", "meshyPoll"}

\* C31 (as claimed): with two status paths, the record of each job is the
\* one that job writes when it runs alone, whatever the other job does, and
\* while one job waits for its backend operation or its next poll the other
\* job, until it has ended, has a step to take.
C31_JobsIndependent ==
    (~statusShared /\ parked # Absent) =>
        /\ OwnRecord(Unit, statusFile)
        /\ OwnRecord(Other, Other.statusFile)
        /\ (Blocked(Other) /\ pc # "done") => ENABLED (Next \/ AwaitRejected)

====
